---- MODULE Spec2Model ----
(***************************************************************************)
(* Virtual card management system: card lifecycle state machine, spending  *)
(* limit evaluation, idempotent webhook ingestion, and the two-phase       *)
(* transaction model with its double-entry ledger.                         *)
(*                                                                         *)
(* Request handlers run concurrently (Workers).  Each handler advances one *)
(* database round trip at a time, in the order of the "Transaction         *)
(* Authorization Flow" sequence diagram; a SERIALIZABLE database           *)
(* transaction is one atomic step.                                         *)
(***************************************************************************)
EXTENDS Integers, Sequences, FiniteSets, TLC

\* ------------------------------------------------------------------ bounds
MaxRequests == 2        \* webhook requests received in one behaviour of Spec
MaxWebhookRequests == 3 \* webhook requests received in one behaviour of SpecWebhook
MaxAmount == 2          \* amounts range over 1..MaxAmount minor units
MaxDay == 2             \* UTC days are numbered 0..MaxDay
DaysPerMonth == 2       \* days of a calendar month

\* ------------------------------------------------------------- value sets
CardIds == {"c1"}
Workers == {1, 2}
IdempotencyKeyValues == {1, 2, 3}
MerchantIds == {"m1"}
MccCodes == {"5411", "7995"}
Amounts == 1..MaxAmount
WebhookScope == "POST:/webhooks/processor:p1"

CardStatus == {"PENDING", "ACTIVE", "FROZEN", "CLOSED"}
TransactionType == {"AUTHORIZATION", "REFUND"}
TransactionStatus == {"AUTHORIZED", "SETTLED", "REFUNDED", "DECLINED", "REVERSED"}

\* Limit settings a card can be given: the ones it is created with, and the
\* ones updateLimits() can assign.
CreatedLimits ==
    [singleTransactionLimit |-> 2, dailyLimit |-> 2, monthlyLimit |-> 3,
     mccBlocklist |-> {"7995"}]

LimitChoices ==
    { CreatedLimits,
      [singleTransactionLimit |-> 1, dailyLimit |-> 3, monthlyLimit |-> 4,
       mccBlocklist |-> {}] }

VARIABLES
    cards,              \* cardId -> Card row
    transactions,       \* sequence of Transaction rows, id = position
    ledgerAccounts,     \* sequence of LedgerAccount rows, id = position
    ledgerEntries,      \* sequence of LedgerEntry rows, id = position
    idempotencyKeys,    \* <<key, scope>> -> idempotency_keys row, or NoRecord
    workers,            \* request handler -> its position and locals
    now,                \* current UTC day
    requestCount,       \* webhook requests received so far
    firstResponse,      \* history: key -> response of the first execution
    transitionResult,   \* last call of CardStateMachine.transition(): its
                        \* arguments and what it returned
    unitOfWork,         \* request handler -> its open serializable DB
                        \* transaction: snapshot, uncommitted writes, retries
    \* homework-1, utils/rateLimiter.js
    requestCounts,      \* Map<IP, { count, resetTime }>
    clock,              \* Date.now()
    limiterResponse,    \* what rateLimiter() did with the last request
    passed,             \* history: IP -> times at which next() was called
    limiterRequests,    \* requests the middleware has seen
    withoutCleanup,     \* history: the Map as it would be had
                        \* cleanupExpiredEntries() never run
    \* homework-2: the ticket service
    importFile,         \* the buffer handed to the last parse call
    importResult,       \* what the last parseCSV/parseJSON/parseXML returned
    importResponse,     \* the last response of POST /tickets/import
    ticketTable,        \* the rows of the tickets table
    ticketClock,        \* the time of the ticket service
    ticketResponse,     \* the last response of PUT /tickets/:id
    ticketRequests,     \* requests the ticket routes have handled
    \* homework-2: the process and its shutdown
    server,             \* the HTTP server: listening, closing, closed
    inFlight,           \* requests the server is still answering
    database,           \* the Prisma connection
    shutdowns,          \* the calls of gracefulShutdown(), in their order
    exitCode            \* the code of process.exit, once it has run

vars == <<cards, transactions, ledgerAccounts, ledgerEntries, idempotencyKeys,
          workers, now, requestCount, firstResponse, transitionResult,
          unitOfWork, requestCounts, clock, limiterResponse, passed,
          limiterRequests, withoutCleanup, importFile, importResult,
          importResponse, ticketTable, ticketClock, ticketResponse,
          ticketRequests, server, inFlight, database, shutdowns, exitCode>>

\* the state of the rate limiter
limiterVars ==
    <<requestCounts, clock, limiterResponse, passed, limiterRequests,
      withoutCleanup>>

\* the state of the card platform
platformVars ==
    <<cards, transactions, ledgerAccounts, ledgerEntries, idempotencyKeys,
      workers, now, requestCount, firstResponse, transitionResult, unitOfWork>>

\* the state of the ticket routes
ticketVars ==
    <<importFile, importResult, importResponse, ticketTable, ticketClock,
      ticketResponse, ticketRequests>>

\* the state of the ticket server process
shutdownVars == <<server, inFlight, database, shutdowns, exitCode>>

\* the state of the other programs of the repository
hwVars == <<limiterVars, ticketVars, shutdownVars>>

NoRecord == [state |-> "absent"]
NoRequest == [kind |-> "none"]
Response(status, approved, authorizationCode, transactionId, error) ==
    [status |-> status, approved |-> approved,
     authorizationCode |-> authorizationCode, transactionId |-> transactionId,
     error |-> error]

NoResponse == Response(0, FALSE, {}, {}, "none")
NoCard == [status |-> "NONE"]

\* ------------------------------------------------------ card state machine
\* the diagram with an edge out of CLOSED
AllowedTransitions_ClosedToFrozen ==
    { <<"PENDING", "ACTIVE">>, <<"ACTIVE", "FROZEN">>, <<"FROZEN", "ACTIVE">>,
      <<"ACTIVE", "CLOSED">>, <<"FROZEN", "CLOSED">>, <<"CLOSED", "FROZEN">> }

\* The allowed transitions of the card state diagram.
AllowedTransitions ==
    { <<"PENDING", "ACTIVE">>, <<"ACTIVE", "FROZEN">>, <<"FROZEN", "ACTIVE">>,
      <<"ACTIVE", "CLOSED">>, <<"FROZEN", "CLOSED">> }

InvalidStateTransitionError == "InvalidStateTransitionError"

\* a closed card can be activated again
transition_ReopensClosed(current, requested) ==
    IF <<current, requested>> \in AllowedTransitions \cup {<<"CLOSED", "ACTIVE">>}
    THEN requested
    ELSE InvalidStateTransitionError

\* CardStateMachine.transition(): the new state, or the error.
transition(current, requested) ==
    IF <<current, requested>> \in AllowedTransitions
    THEN requested
    ELSE InvalidStateTransitionError

NoTransition ==
    [cardId |-> "NONE", current |-> "NONE", requested |-> "NONE", result |-> "NONE"]

\* ------------------------------------------------------------------ helpers
Last(seq) == seq[Len(seq)]

\* ids (positions) of the rows of a table that satisfy a test
RowIds(table, Test(_)) == { i \in 1..Len(table) : Test(table[i]) }

RECURSIVE SumAmounts(_, _)
\* SUM(amountMinor) over the rows of `table` with the given ids
SumAmounts(table, ids) ==
    IF ids = {} THEN 0
    ELSE LET i == CHOOSE j \in ids : TRUE
         IN  table[i].amountMinor + SumAmounts(table, ids \ {i})

\* payloadHash: SHA-256 of the request body, taken as collision free, so two
\* hashes are equal exactly when the bodies are.
PayloadHash(req) == <<"sha256", req>>

IdemKey(req) == <<req.idempotencyKey, WebhookScope>>

\* ------------------------------------------------------------ spending limits
\* refund rows are summed as well
AggregatedStatuses_CountsRefunds == {"AUTHORIZED", "SETTLED", "REFUNDED"}

\* Statuses included in aggregation.
AggregatedStatuses == {"AUTHORIZED", "SETTLED"}

\* the UTC calendar month of a day
MonthOf(day) == day \div DaysPerMonth

\* SUM(amountMinor) of the card's counted transactions of the current UTC day.
DailySum(cardId) ==
    SumAmounts(transactions,
               RowIds(transactions,
                      LAMBDA t : /\ t.cardId = cardId
                                 /\ t.status \in AggregatedStatuses
                                 /\ t.createdAt = now))

\* SUM(amountMinor) of the card's counted transactions of the current UTC month.
MonthlySum(cardId) ==
    SumAmounts(transactions,
               RowIds(transactions,
                      LAMBDA t : /\ t.cardId = cardId
                                 /\ t.status \in AggregatedStatuses
                                 /\ MonthOf(t.createdAt) = MonthOf(now)))

MccBlocklistStrategy(card, amountMinor, mcc) == mcc \notin card.mccBlocklist

PerTransactionStrategy(card, amountMinor, mcc) ==
    amountMinor <= card.singleTransactionLimit

DailyAggregateStrategy(card, cardId, amountMinor) ==
    DailySum(cardId) + amountMinor <= card.dailyLimit

MonthlyAggregateStrategy(card, cardId, amountMinor) ==
    MonthlySum(cardId) + amountMinor <= card.monthlyLimit

Allowed == [allowed |-> TRUE, reason |-> "none", failedStrategy |-> "none"]

Denied(reason, strategy) ==
    [allowed |-> FALSE, reason |-> reason, failedStrategy |-> strategy]

\* the daily aggregate is checked first
evaluate_DailyBeforeMcc(card, cardId, amountMinor, mcc) ==
    IF ~DailyAggregateStrategy(card, cardId, amountMinor)
    THEN Denied("daily_limit", "DailyAggregateStrategy")
    ELSE IF ~MccBlocklistStrategy(card, amountMinor, mcc)
    THEN Denied("mcc_blocked", "MccBlocklistStrategy")
    ELSE IF ~PerTransactionStrategy(card, amountMinor, mcc)
    THEN Denied("per_transaction_limit", "PerTransactionStrategy")
    ELSE IF ~MonthlyAggregateStrategy(card, cardId, amountMinor)
    THEN Denied("monthly_limit", "MonthlyAggregateStrategy")
    ELSE Allowed

\* LimitsService.evaluate(): the strategies in their fixed order, stopping at
\* the first that fails.
evaluate(card, cardId, amountMinor, mcc) ==
    IF ~MccBlocklistStrategy(card, amountMinor, mcc)
    THEN Denied("mcc_blocked", "MccBlocklistStrategy")
    ELSE IF ~PerTransactionStrategy(card, amountMinor, mcc)
    THEN Denied("per_transaction_limit", "PerTransactionStrategy")
    ELSE IF ~DailyAggregateStrategy(card, cardId, amountMinor)
    THEN Denied("daily_limit", "DailyAggregateStrategy")
    ELSE IF ~MonthlyAggregateStrategy(card, cardId, amountMinor)
    THEN Denied("monthly_limit", "MonthlyAggregateStrategy")
    ELSE Allowed

\* ---------------------------------------------------------------------- rows
\* Transaction Type/Status Matrix: the valid combinations
TypeStatusMatrix ==
    ({"AUTHORIZATION"} \X {"AUTHORIZED", "SETTLED", "REVERSED", "DECLINED"})
    \cup ({"REFUND"} \X {"REFUNDED"})

\* a REFUND row is written as SETTLED, the status of a completed payment
NewTransaction_RefundSettled(id, cardId, original, type, status, amountMinor, req, reason) ==
    [id |-> id, cardId |-> cardId, originalTransactionId |-> original,
     type |-> type, status |-> IF type = "REFUND" THEN "SETTLED" ELSE status,
     amountMinor |-> amountMinor,
     currency |-> cards[cardId].currency,
     merchantId |-> req.merchantId,
     merchantCategoryCode |-> req.merchantCategoryCode,
     authorizationCode |-> IF status = "AUTHORIZED" THEN {id} ELSE {},
     declineReason |-> reason,
     idempotencyKey |-> req.idempotencyKey,
     createdAt |-> now]

NewTransaction(id, cardId, original, type, status, amountMinor, req, reason) ==
    [id |-> id, cardId |-> cardId, originalTransactionId |-> original,
     type |-> type, status |-> status, amountMinor |-> amountMinor,
     currency |-> cards[cardId].currency,
     merchantId |-> req.merchantId,
     merchantCategoryCode |-> req.merchantCategoryCode,
     authorizationCode |-> IF status = "AUTHORIZED" THEN {id} ELSE {},
     declineReason |-> reason,
     idempotencyKey |-> req.idempotencyKey,
     createdAt |-> now]

\* ids of the ledger accounts of an owner
AccountsOf(accounts, accountType, owner) ==
    RowIds(accounts, LAMBDA a : a.accountType = accountType /\ a.ownerEntityId = owner)

NewLedgerAccount(accountType, owner, currency) ==
    [accountType |-> accountType, ownerEntityId |-> owner, currency |-> currency]

\* Resolve/Create LedgerAccount (MERCHANT): the table after the lookup, with a
\* new account appended on the first transaction with the merchant.
ResolveMerchantAccount(accounts, merchantId, currency) ==
    IF AccountsOf(accounts, "MERCHANT", merchantId) # {}
    THEN accounts
    ELSE Append(accounts, NewLedgerAccount("MERCHANT", merchantId, currency))

AccountId(accounts, accountType, owner) ==
    CHOOSE i \in AccountsOf(accounts, accountType, owner) : TRUE

LedgerEntry(transactionId, accountId, entryType, amountMinor, currency) ==
    [transactionId |-> transactionId, ledgerAccountId |-> accountId,
     entryType |-> entryType, amountMinor |-> amountMinor, currency |-> currency]

\* createLedgerEntries() with the refund pair posted on the wrong side: both
\* entries of a refund are DEBITs.
createLedgerEntries_RefundBothDebit(tx, cardHolderAccount, merchantAccount) ==
    IF tx.type = "AUTHORIZATION"
    THEN << LedgerEntry(tx.id, cardHolderAccount, "DEBIT", tx.amountMinor, tx.currency),
            LedgerEntry(tx.id, merchantAccount, "CREDIT", tx.amountMinor, tx.currency) >>
    ELSE << LedgerEntry(tx.id, cardHolderAccount, "DEBIT", tx.amountMinor, tx.currency),
            LedgerEntry(tx.id, merchantAccount, "DEBIT", tx.amountMinor, tx.currency) >>

\* createLedgerEntries() with the refund pair posted on the sides of an
\* authorization: the cardholder is debited again.
createLedgerEntries_RefundAsAuthorization(tx, cardHolderAccount, merchantAccount) ==
    << LedgerEntry(tx.id, cardHolderAccount, "DEBIT", tx.amountMinor, tx.currency),
       LedgerEntry(tx.id, merchantAccount, "CREDIT", tx.amountMinor, tx.currency) >>

\* TransactionsService.createLedgerEntries(): the balanced pair of a
\* transaction.  An authorization debits the cardholder account and credits
\* the merchant account; a refund posts the reverse pair.
createLedgerEntries(tx, cardHolderAccount, merchantAccount) ==
    IF tx.type = "AUTHORIZATION"
    THEN << LedgerEntry(tx.id, cardHolderAccount, "DEBIT", tx.amountMinor, tx.currency),
            LedgerEntry(tx.id, merchantAccount, "CREDIT", tx.amountMinor, tx.currency) >>
    ELSE << LedgerEntry(tx.id, cardHolderAccount, "CREDIT", tx.amountMinor, tx.currency),
            LedgerEntry(tx.id, merchantAccount, "DEBIT", tx.amountMinor, tx.currency) >>

\* the write of a pair done as an UPDATE of the rows posted last
insertLedgerEntries_UpdatesLastPair(entries) ==
    IF Len(ledgerEntries) >= 2
    THEN SubSeq(ledgerEntries, 1, Len(ledgerEntries) - 2) \o entries
    ELSE ledgerEntries \o entries

\* The ledger table after the pair is written.  The ledger_writer role holds
\* INSERT and SELECT only: the rows already there stay as they are.
insertLedgerEntries(entries) == ledgerEntries \o entries

\* ------------------------------------------------------------------ requests
AuthorizeRequests ==
    [kind : {"authorize"}, cardId : CardIds, amountMinor : Amounts,
     merchantId : MerchantIds, merchantCategoryCode : MccCodes,
     idempotencyKey : IdempotencyKeyValues]

\* authorizationCode is that of a transaction row, whatever its status
SettleRequests ==
    [kind : {"settle"}, authorizationCode : 1..Len(transactions),
     settlementAmountMinor : Amounts, settlementCurrency : {"USD", "EUR"},
     idempotencyKey : IdempotencyKeyValues]

\* refundAmountMinor is optional: {} when absent, {n} when given.
\* processorInitiated marks the processor's reversal event.
\* originalTransactionId is the id of a row, or (in a plain full refund) the
\* next id, which no row has yet.
RefundRequests ==
    [kind : {"refund"}, originalTransactionId : 1..Len(transactions),
     refundAmountMinor : {{}} \cup {{a} : a \in Amounts},
     processorInitiated : BOOLEAN,
     idempotencyKey : IdempotencyKeyValues]
    \cup
    [kind : {"refund"}, originalTransactionId : {Len(transactions) + 1},
     refundAmountMinor : {{}}, processorInitiated : {FALSE},
     idempotencyKey : IdempotencyKeyValues]

\* retry(..., { retries: 3, backoff: [100, 200, 400] })
MaxRetries == 3

\* no serializable DB transaction open, none re-attempted
NoUnit ==
    [open |-> FALSE, attempt |-> 0, snapshot |-> << >>, transaction |-> << >>,
     ledgerAccounts |-> << >>, entries |-> << >>]

IdleWorker ==
    [pc |-> "idle", req |-> NoRequest, card |-> NoCard, resp |-> NoResponse,
     outcome |-> "none"]

\* -------------------------------------------------------------- rate limiter
\* homework-1 utils/rateLimiter.js, with the window and the limit scaled down:
\* the source allows 100 requests in a window of 60 000 ms.
MAX_REQUESTS == 2
WINDOW_MS == 2
MaxClock == 5
MaxLimiterRequests == 5

IPs == {"10.0.0.1", "10.0.0.2"}

\* new Map()
EmptyMap == [ip \in {} |-> [count |-> 0, resetTime |-> 0]]

\* map.set(ip, data)
MapSet(map, ip, data) ==
    [k \in DOMAIN map \cup {ip} |-> IF k = ip THEN data ELSE map[k]]

\* map.delete(ip) for every ip of a set
MapDelete(map, ips) == [k \in DOMAIN map \ ips |-> map[k]]

NoLimiterResponse ==
    [ip |-> "none", status |-> 0, remaining |-> 0, resetTime |-> 0,
     created |-> FALSE]

InitLimiter ==
    /\ requestCounts = EmptyMap
    /\ clock = 0
    /\ limiterResponse = NoLimiterResponse
    /\ passed = [ip \in IPs |-> << >>]
    /\ limiterRequests = 0
    /\ withoutCleanup = EmptyMap

\* ------------------------------------------------------------ ticket service
\* homework-2: utils/validation.ts, services/import.service.ts,
\* services/ticket.service.ts and routes/tickets.routes.ts.
MaxRecords == 2
MaxTicketRequests == 2
MaxTicketClock == 3

\* the strings z.string().email() accepts, among those of the records below
Emails == {"valid@example.com", "agent@test.com"}

\* the records of an import file; the fields left out are valid in all of them
ImportRecords ==
    { [customer_id |-> "CUST001", customer_email |-> "valid@example.com",
       description |-> "Valid description"],
      [customer_id |-> "CUST002", customer_email |-> "invalid-email",
       description |-> "Invalid description"],
      [customer_id |-> "CUST003", customer_email |-> "valid@example.com",
       description |-> "Short"] }

RecordLists == UNION { [1..n -> ImportRecords] : n \in 0..MaxRecords }

\* an uploaded buffer: records in the format of the extension, text that the
\* parser of the format rejects, an empty document, or a CSV stream that
\* fails after the records
Files ==
    [extension : {"csv", "json", "xml"}, kind : {"records"}, records : RecordLists]
    \cup [extension : {"json", "xml"}, kind : {"malformed"}, records : {<< >>}]
    \cup [extension : {"xml"}, kind : {"empty"}, records : {<< >>}]
    \cup [extension : {"csv"}, kind : {"streamError"}, records : RecordLists]

NoFile == [extension |-> "none", kind |-> "none", records |-> << >>]

\* data.field !== undefined
Has(data, field) == field \in DOMAIN data

\* CreateTicketSchema.parse(ticket) does not throw
CreateTicketSchema(ticket) ==
    /\ Len(ticket.customer_id) >= 1
    /\ ticket.customer_email \in Emails
    /\ Len(ticket.description) >= 10
    /\ Len(ticket.description) <= 2000

\* an entry of errors: the row and the message, a text with the number that
\* a template puts in front of it ({} when there is none)
ImportError(row, number, text) ==
    [row |-> row, error |-> [number |-> number, text |-> text]]

\* the rows of the errors are counted from 0, as the index of forEach is
ValidationErrors_ZeroBased(records) ==
    LET rows == [i \in 1..Len(records) |->
                    [row |-> i - 1, valid |-> CreateTicketSchema(records[i])]]
        failed == SelectSeq(rows, LAMBDA r : ~r.valid)
    IN  [j \in 1..Len(failed) |-> ImportError(failed[j].row, {}, "ZodError")]

\* the errors.push of the forEach / 'data' callbacks, in the order of the rows
ValidationErrors(records) ==
    LET rows == [i \in 1..Len(records) |->
                    [row |-> i, valid |-> CreateTicketSchema(records[i])]]
        failed == SelectSeq(rows, LAMBDA r : ~r.valid)
    IN  [j \in 1..Len(failed) |-> ImportError(failed[j].row, {}, "ZodError")]

\* successful++ of the forEach / 'data' callbacks
Successful(records) ==
    Cardinality({ i \in 1..Len(records) : CreateTicketSchema(records[i]) })

\* ImportService.parseCSV(fileBuffer): the 'end' and the 'error' handler
parseCSV(file) ==
    LET errors == ValidationErrors(file.records)
        rowNumber == Len(file.records)
    IN  IF file.kind = "streamError"
        THEN [total |-> rowNumber, successful |-> Successful(file.records),
              failed |-> Len(errors) + 1,
              errors |-> Append(errors, ImportError(rowNumber, {}, "stream error"))]
        ELSE [total |-> rowNumber, successful |-> Successful(file.records),
              failed |-> Len(errors), errors |-> errors]

\* ImportService.parseJSON(fileBuffer)
parseJSON(file) ==
    IF file.kind # "records"
    THEN [total |-> 0, successful |-> 0, failed |-> 1,
          errors |-> << ImportError(0, {}, "Invalid JSON format") >>]
    ELSE LET errors == ValidationErrors(file.records)
         IN  [total |-> Len(file.records), successful |-> Successful(file.records),
              failed |-> Len(errors), errors |-> errors]

\* ImportService.parseXML(fileBuffer): parseString of an empty document gives
\* no error and a null result, whose .tickets throws
parseXML(file) ==
    IF file.kind = "malformed"
    THEN [total |-> 0, successful |-> 0, failed |-> 1,
          errors |-> << ImportError(0, {}, "Invalid XML format") >>]
    ELSE IF file.kind = "empty"
    THEN [total |-> 0, successful |-> 0, failed |-> 1,
          errors |-> << ImportError(0, {}, "Error processing XML structure") >>]
    ELSE LET errors == ValidationErrors(file.records)
         IN  [total |-> Len(file.records), successful |-> Successful(file.records),
              failed |-> Len(errors), errors |-> errors]

\* the switch on the file extension of POST /tickets/import
Parse(file) ==
    CASE file.extension = "csv" -> parseCSV(file)
      [] file.extension = "json" -> parseJSON(file)
      [] file.extension = "xml" -> parseXML(file)

\* extractValidTicketsFromCSV / FromJSON / FromXML: the validated records in
\* the order of the file, none when the file cannot be parsed
extractValidTickets(file) ==
    IF file.kind \in {"records", "streamError"}
    THEN SelectSeq(file.records, CreateTicketSchema)
    ELSE << >>

categoryMap ==
    [c \in {"account_access", "technical_issue", "billing_question",
            "feature_request", "bug_report", "other"} |->
        CASE c = "account_access" -> "ACCOUNT_ACCESS"
          [] c = "technical_issue" -> "TECHNICAL_ISSUE"
          [] c = "billing_question" -> "BILLING_QUESTION"
          [] c = "feature_request" -> "FEATURE_REQUEST"
          [] c = "bug_report" -> "BUG_REPORT"
          [] c = "other" -> "OTHER"]

priorityMap ==
    [q \in {"urgent", "high", "medium", "low"} |->
        CASE q = "urgent" -> "URGENT"
          [] q = "high" -> "HIGH"
          [] q = "medium" -> "MEDIUM"
          [] q = "low" -> "LOW"]

statusMap ==
    [st \in {"new", "in_progress", "waiting_customer", "resolved", "closed"} |->
        CASE st = "new" -> "NEW"
          [] st = "in_progress" -> "IN_PROGRESS"
          [] st = "waiting_customer" -> "WAITING_CUSTOMER"
          [] st = "resolved" -> "RESOLVED"
          [] st = "closed" -> "CLOSED"]

\* classificationService.classify() on a text without any of the keywords
classify == [category |-> "other", priority |-> "medium"]

\* TicketService.createTicket(data): the row prisma.ticket.create inserts;
\* a column that is NULL holds {}
createTicket(data, id, time) ==
    [id |-> id,
     customerId |-> data.customer_id,
     customerEmail |-> data.customer_email,
     description |-> data.description,
     category |-> categoryMap[IF Has(data, "category") THEN data.category
                              ELSE classify.category],
     priority |-> priorityMap[IF Has(data, "priority") THEN data.priority
                              ELSE classify.priority],
     status |-> IF Has(data, "status") THEN statusMap[data.status] ELSE "NEW",
     assignedTo |-> IF Has(data, "assigned_to") THEN {data.assigned_to} ELSE {},
     tags |-> IF Has(data, "tags") THEN data.tags ELSE << >>,
     resolvedAt |-> {},
     createdAt |-> time,
     updatedAt |-> time]

RECURSIVE bulkCreateTickets(_, _, _, _)
\* TicketService.bulkCreateTickets(tickets): the table after the loop; the
\* tickets at the positions in `failing` are those whose create throws
bulkCreateTickets(table, tickets, failing, time) ==
    IF tickets = << >>
    THEN table
    ELSE LET position == Len(tickets)
             before == bulkCreateTickets(table, SubSeq(tickets, 1, position - 1),
                                         failing, time)
         IN  IF position \in failing
             THEN before
             ELSE Append(before, createTicket(tickets[position], Len(before) + 1, time))

NoImportResult == [total |-> 0, successful |-> 0, failed |-> 0, errors |-> << >>]

\* a response of the import route: status and body, and for the record what
\* the parser had returned and how many rows bulkCreateTickets returned
NoImportResponse ==
    [status |-> 0, body |-> NoImportResult, validation |-> NoImportResult,
     saved |-> 0]

NoTicketResponse ==
    [status |-> 0, id |-> 0, request |-> << >>, before |-> << >>, body |-> << >>]

InitTickets ==
    /\ importFile = NoFile
    /\ importResult = NoImportResult
    /\ importResponse = NoImportResponse
    /\ ticketTable = << >>
    /\ ticketClock = 0
    /\ ticketResponse = NoTicketResponse
    /\ ticketRequests = 0

\* ------------------------------------------------------------ ticket server
Signals == {"SIGINT", "SIGTERM"}
MaxInFlight == 3
MaxSignals == 3

InitShutdown ==
    /\ server = "listening"
    /\ inFlight = 0
    /\ database = "connected"
    /\ shutdowns = << >>
    /\ exitCode = {}

\* ---------------------------------------------------------------------- Init
\* One PENDING card with its CARD_HOLDER ledger account, the pre-seeded SYSTEM
\* account, and no transactions.
NewCard ==
    [status |-> "PENDING", currency |-> "USD",
     singleTransactionLimit |-> CreatedLimits.singleTransactionLimit,
     dailyLimit |-> CreatedLimits.dailyLimit,
     monthlyLimit |-> CreatedLimits.monthlyLimit,
     mccBlocklist |-> CreatedLimits.mccBlocklist,
     closedAt |-> {}]

CardList == CHOOSE seq \in [1..Cardinality(CardIds) -> CardIds] :
                \A c \in CardIds : \E i \in DOMAIN seq : seq[i] = c

Init ==
    /\ cards = [c \in CardIds |-> NewCard]
    /\ transactions = << >>
    /\ ledgerAccounts =
           << NewLedgerAccount("SYSTEM", "none", "USD") >>
           \o [i \in 1..Cardinality(CardIds) |->
                 NewLedgerAccount("CARD_HOLDER", CardList[i], "USD")]
    /\ ledgerEntries = << >>
    /\ idempotencyKeys = [k \in IdempotencyKeyValues \X {WebhookScope} |-> NoRecord]
    /\ workers = [w \in Workers |-> IdleWorker]
    /\ now = 0
    /\ requestCount = 0
    /\ firstResponse = [k \in IdempotencyKeyValues |-> NoResponse]
    /\ transitionResult = NoTransition
    /\ unitOfWork = [w \in Workers |-> NoUnit]
    /\ InitLimiter
    /\ InitTickets
    /\ InitShutdown

\* ------------------------------------------------------------- card lifecycle
\* A lifecycle endpoint: CardStateMachine.transition() inside one serializable
\* transaction; an illegal move leaves the card as it is.
ApplyTransition(c, requested) ==
    LET result == transition(cards[c].status, requested)
    IN  cards' =
          IF result = InvalidStateTransitionError
          THEN cards
          ELSE [cards EXCEPT ![c].status = result,
                             ![c].closedAt =
                                 IF result = "CLOSED" THEN {now} ELSE @]

CardFrame ==
    UNCHANGED <<transactions, ledgerAccounts, ledgerEntries, idempotencyKeys,
                workers, now, hwVars, unitOfWork, transitionResult, requestCount, firstResponse>>

\* A call of CardStateMachine.transition() with any requested state, applied
\* to the card as the lifecycle endpoints apply it.
transitionCard(c, requested) ==
    /\ transitionResult' =
          [cardId |-> c, current |-> cards[c].status, requested |-> requested,
           result |-> transition(cards[c].status, requested)]
    /\ ApplyTransition(c, requested)
    /\ UNCHANGED <<transactions, ledgerAccounts, ledgerEntries, idempotencyKeys,
                   workers, now, hwVars, unitOfWork, requestCount, firstResponse>>

\* the endpoint of the PENDING --> ACTIVE edge
activateCard(c) ==
    /\ IF cards[c].status = "FROZEN"
       THEN UNCHANGED cards
       ELSE ApplyTransition(c, "ACTIVE")
    /\ CardFrame

freezeCard(c) == ApplyTransition(c, "FROZEN") /\ CardFrame

\* the endpoint of the FROZEN --> ACTIVE edge
unfreezeCard(c) ==
    /\ IF cards[c].status = "PENDING"
       THEN UNCHANGED cards
       ELSE ApplyTransition(c, "ACTIVE")
    /\ CardFrame

closeCard(c) == ApplyTransition(c, "CLOSED") /\ CardFrame

\* LimitsService.updateLimits(): assigns the limits and the MCC blocklist of
\* the card.
updateLimits(c, limits) ==
    /\ cards' = [cards EXCEPT
                   ![c].singleTransactionLimit = limits.singleTransactionLimit,
                   ![c].dailyLimit = limits.dailyLimit,
                   ![c].monthlyLimit = limits.monthlyLimit,
                   ![c].mccBlocklist = limits.mccBlocklist]
    /\ UNCHANGED <<transactions, ledgerAccounts, ledgerEntries, idempotencyKeys,
                   workers, now, hwVars, unitOfWork, transitionResult, requestCount, firstResponse>>

\* ---------------------------------------------------------------------- time
NextDay ==
    /\ now < MaxDay
    /\ now' = now + 1
    /\ UNCHANGED <<cards, transactions, ledgerAccounts, ledgerEntries,
                   idempotencyKeys, workers, requestCount, firstResponse,
                   transitionResult, unitOfWork, hwVars>>

\* ------------------------------------------------------------ webhook ingestion
Approved(code) == Response(200, TRUE, {code}, {code}, "none")

DeclinedResponse(id, reason) == Response(200, FALSE, {}, {id}, reason)

Conflict == Response(409, FALSE, {}, {}, "idempotency_key_payload_mismatch")

\* first position of a handler after the idempotency check
StartPc(req) ==
    CASE req.kind = "authorize" -> "findCard"
      [] req.kind = "settle" -> "settle"
      [] req.kind = "refund" -> "refund"

\* a handler that can take a request
Free(w) == workers[w].pc \in {"idle", "done"}

\* a complete row does not stop the request: the business logic runs again
AnswerFromRecord_Reexecute(w, req, rec) ==
    [pc |-> StartPc(req), req |-> req, card |-> NoCard,
     resp |-> NoResponse, outcome |-> "none"]

\* the payload hash is not compared: any request with a known key is a retry
AnswerFromRecord_IgnoresPayloadHash(w, req, rec) ==
    [pc |-> "done", req |-> req, card |-> NoCard,
     resp |-> rec.response, outcome |-> "replayed"]

\* The answer to a request whose (key, scope) row is complete: the cached
\* response when the payload hash matches, 409 Conflict when it differs.
\* Business logic is not executed.
AnswerFromRecord(w, req, rec) ==
    IF rec.payloadHash = PayloadHash(req)
    THEN [pc |-> "done", req |-> req, card |-> NoCard,
          resp |-> rec.response, outcome |-> "replayed"]
    ELSE [pc |-> "done", req |-> req, card |-> NoCard,
          resp |-> Conflict, outcome |-> "conflict"]

\* TransactionsController.webhook(): a handler takes a request and INSERTs
\* its (key, scope) row.  The first writer wins and goes on to the business
\* logic; a request whose row exists is answered from it, after waiting for
\* the winner when the winner has not committed yet.
Receive(w, req, limit) ==
    /\ Free(w)
    /\ \A v \in Workers : v < w => ~Free(v)
    /\ \A k \in IdempotencyKeyValues :
          k < req.idempotencyKey => idempotencyKeys[<<k, WebhookScope>>].state # "absent"
    /\ requestCount < limit
    /\ requestCount' = requestCount + 1
    /\ LET rec == idempotencyKeys[IdemKey(req)]
       IN  CASE rec.state = "absent" ->
                  /\ idempotencyKeys' =
                        [idempotencyKeys EXCEPT ![IdemKey(req)] =
                           [state |-> "in_flight",
                            payloadHash |-> PayloadHash(req),
                            response |-> NoResponse]]
                  /\ workers' = [workers EXCEPT ![w] =
                        [pc |-> StartPc(req), req |-> req, card |-> NoCard,
                         resp |-> NoResponse, outcome |-> "none"]]
             [] rec.state = "in_flight" ->
                  /\ workers' = [workers EXCEPT ![w] =
                        [pc |-> "blocked", req |-> req, card |-> NoCard,
                         resp |-> NoResponse, outcome |-> "none"]]
                  /\ UNCHANGED idempotencyKeys
             [] rec.state = "done" ->
                  /\ workers' = [workers EXCEPT ![w] = AnswerFromRecord(w, req, rec)]
                  /\ UNCHANGED idempotencyKeys
    /\ UNCHANGED <<cards, transactions, ledgerAccounts, ledgerEntries, now, hwVars, unitOfWork,
                   transitionResult, firstResponse>>

ReceiveAuthorize(w, limit) == \E req \in AuthorizeRequests : Receive(w, req, limit)

ReceiveSettle(w, limit) == \E req \in SettleRequests : Receive(w, req, limit)

ReceiveRefund(w, limit) == \E req \in RefundRequests : Receive(w, req, limit)

\* the loser of the INSERT race runs the business logic itself once the
\* winner has committed
Unblock_RunsBusinessLogic(w) ==
    /\ workers[w].pc = "blocked"
    /\ idempotencyKeys[IdemKey(workers[w].req)].state = "done"
    /\ workers' = [workers EXCEPT ![w] = [@ EXCEPT !.pc = StartPc(workers[w].req)]]
    /\ UNCHANGED <<cards, transactions, ledgerAccounts, ledgerEntries,
                   idempotencyKeys, now, hwVars, unitOfWork, transitionResult, requestCount,
                   firstResponse>>

\* The loser of the INSERT race, once the winner has committed.
Unblock(w) ==
    /\ workers[w].pc = "blocked"
    /\ idempotencyKeys[IdemKey(workers[w].req)].state = "done"
    /\ workers' = [workers EXCEPT ![w] =
          AnswerFromRecord(w, workers[w].req,
                           idempotencyKeys[IdemKey(workers[w].req)])]
    /\ UNCHANGED <<cards, transactions, ledgerAccounts, ledgerEntries,
                   idempotencyKeys, now, hwVars, unitOfWork, transitionResult, requestCount,
                   firstResponse>>

\* The handler answers: the response is stored in the (key, scope) row and
\* returned.
Respond(w, resp) ==
    LET req == workers[w].req
    IN  /\ idempotencyKeys' =
              [idempotencyKeys EXCEPT ![IdemKey(req)] =
                 [@ EXCEPT !.state = "done", !.response = resp]]
        /\ workers' = [workers EXCEPT ![w] =
              [pc |-> "done", req |-> req, card |-> NoCard,
               resp |-> resp, outcome |-> "executed"]]
        /\ firstResponse' = [firstResponse EXCEPT ![req.idempotencyKey] = resp]

\* ---------------------------------------------------------- processAuthorization
\* a declined authorization posts a ledger pair as an approved one does
Decline_PostsEntries(w, reason) ==
    LET req == workers[w].req
        id == Len(transactions) + 1
        tx == NewTransaction(id, req.cardId, {}, "AUTHORIZATION", "DECLINED",
                             req.amountMinor, req, reason)
    IN  /\ transactions' = Append(transactions, tx)
        /\ ledgerEntries' = insertLedgerEntries(
              createLedgerEntries(tx,
                  AccountId(ledgerAccounts, "CARD_HOLDER", req.cardId),
                  AccountId(ledgerAccounts, "CARD_HOLDER", req.cardId)))
        /\ Respond(w, DeclinedResponse(id, reason))
        /\ UNCHANGED <<cards, ledgerAccounts, now, hwVars, unitOfWork, transitionResult, requestCount>>

\* INSERT Transaction (type=AUTHORIZATION, status=DECLINED): no ledger entries.
Decline(w, reason) ==
    LET req == workers[w].req
        id == Len(transactions) + 1
    IN  /\ transactions' =
              Append(transactions,
                     NewTransaction(id, req.cardId, {}, "AUTHORIZATION", "DECLINED",
                                    req.amountMinor, req, reason))
        /\ Respond(w, DeclinedResponse(id, reason))
        /\ UNCHANGED <<cards, ledgerAccounts, ledgerEntries, now, hwVars, unitOfWork,
                       transitionResult, requestCount>>

\* the card's status is not looked at: every request goes on to the limits
AuthFindCard_SkipsStatusCheck(w) ==
    /\ workers[w].pc = "findCard"
    /\ workers' = [workers EXCEPT ![w] =
          [@ EXCEPT !.pc = "evaluate", !.card = cards[workers[w].req.cardId]]]
    /\ UNCHANGED <<cards, transactions, ledgerAccounts, ledgerEntries,
                   idempotencyKeys, now, hwVars, unitOfWork, transitionResult, requestCount,
                   firstResponse>>

\* Find Card by cardId; a card that is not ACTIVE is declined at once.
AuthFindCard(w) ==
    /\ workers[w].pc = "findCard"
    /\ LET card == cards[workers[w].req.cardId]
       IN  IF card.status # "ACTIVE"
           THEN Decline(w, "card_not_active")
           ELSE /\ workers' = [workers EXCEPT ![w] =
                      [@ EXCEPT !.pc = "evaluate", !.card = card]]
                /\ UNCHANGED <<cards, transactions, ledgerAccounts,
                               ledgerEntries, idempotencyKeys, now, hwVars, unitOfWork,
                               transitionResult, requestCount, firstResponse>>

\* LimitsService.evaluate(card, amount, MCC) on the card that was found.
AuthEvaluate(w) ==
    /\ workers[w].pc = "evaluate"
    /\ LET req == workers[w].req
           result == evaluate(workers[w].card, req.cardId, req.amountMinor,
                              req.merchantCategoryCode)
       IN  IF ~result.allowed
           THEN Decline(w, result.reason)
           ELSE /\ workers' = [workers EXCEPT ![w] = [@ EXCEPT !.pc = "commit"]]
                /\ UNCHANGED <<cards, transactions, ledgerAccounts,
                               ledgerEntries, idempotencyKeys, now, hwVars, unitOfWork,
                               transitionResult, requestCount, firstResponse>>

\* BEGIN SERIALIZABLE ... COMMIT: the AUTHORIZED transaction, the merchant
\* account on first use, and the balanced ledger pair.
AuthCommit(w) ==
    /\ workers[w].pc = "commit"
    /\ LET req == workers[w].req
           id == Len(transactions) + 1
           tx == NewTransaction(id, req.cardId, {}, "AUTHORIZATION", "AUTHORIZED",
                                req.amountMinor, req, "none")
           accounts == ResolveMerchantAccount(ledgerAccounts, req.merchantId,
                                              tx.currency)
       IN  /\ transactions' = Append(transactions, tx)
           /\ ledgerAccounts' = accounts
           /\ ledgerEntries' = insertLedgerEntries(
                 createLedgerEntries(tx,
                     AccountId(accounts, "CARD_HOLDER", req.cardId),
                     AccountId(accounts, "MERCHANT", req.merchantId)))
           /\ Respond(w, Approved(id))
    /\ UNCHANGED <<cards, now, hwVars, unitOfWork, transitionResult, requestCount>>

\* ---------------------------------------- the authorization unit of work, by step
\* The same BEGIN SERIALIZABLE ... COMMIT, statement by statement, with the
\* retry policy.  The statements of an open DB transaction write to the
\* handler's own uncommitted rows; COMMIT makes them the tables' rows at once.
TransientFailure == Response(500, FALSE, {}, {}, "serialization_failure")

\* what a serializable DB transaction reads and writes
Tables ==
    [transactions |-> transactions, ledgerAccounts |-> ledgerAccounts,
     ledgerEntries |-> ledgerEntries]

\* BEGIN SERIALIZABLE: the first attempt, or a re-attempt after a failure
TxBegin(w) ==
    /\ workers[w].pc = "commit"
    /\ ~unitOfWork[w].open
    /\ unitOfWork' = [unitOfWork EXCEPT ![w] =
          [open |-> TRUE, attempt |-> @.attempt, snapshot |-> Tables,
           transaction |-> << >>, ledgerAccounts |-> << >>, entries |-> << >>]]
    /\ UNCHANGED <<cards, transactions, ledgerAccounts, ledgerEntries,
                   idempotencyKeys, workers, now, hwVars, requestCount, firstResponse,
                   transitionResult>>

\* the INSERT is sent outside the DB transaction: the row is in the table at
\* once (await this.prisma.transaction.create(...) without $transaction)
TxInsertTransaction_NoIsolation(w) ==
    /\ unitOfWork[w].open
    /\ unitOfWork[w].transaction = << >>
    /\ LET req == workers[w].req
           id == Len(transactions) + 1
           tx == NewTransaction(id, req.cardId, {}, "AUTHORIZATION", "AUTHORIZED",
                                req.amountMinor, req, "none")
       IN  /\ transactions' = Append(transactions, tx)
           /\ unitOfWork' = [unitOfWork EXCEPT ![w] =
                 [@ EXCEPT !.transaction = << tx >>,
                           !.snapshot = [@ EXCEPT !.transactions = transactions']]]
    /\ UNCHANGED <<cards, ledgerAccounts, ledgerEntries, idempotencyKeys,
                   workers, now, hwVars, requestCount, firstResponse, transitionResult>>

\* INSERT Transaction (AUTHORIZED), inside the open DB transaction
TxInsertTransaction(w) ==
    /\ unitOfWork[w].open
    /\ unitOfWork[w].transaction = << >>
    /\ LET req == workers[w].req
           id == Len(unitOfWork[w].snapshot.transactions) + 1
           tx == NewTransaction(id, req.cardId, {}, "AUTHORIZATION", "AUTHORIZED",
                                req.amountMinor, req, "none")
       IN  unitOfWork' = [unitOfWork EXCEPT ![w] =
              [@ EXCEPT !.transaction = << tx >>]]
    /\ UNCHANGED <<cards, transactions, ledgerAccounts, ledgerEntries,
                   idempotencyKeys, workers, now, hwVars, requestCount, firstResponse,
                   transitionResult>>

\* Resolve LedgerAccount (CARD_HOLDER), Resolve/Create LedgerAccount
\* (MERCHANT), INSERT LedgerEntry (DEBIT), INSERT LedgerEntry (CREDIT), inside
\* the open DB transaction
TxInsertLedgerEntries(w) ==
    /\ unitOfWork[w].open
    /\ unitOfWork[w].transaction # << >>
    /\ unitOfWork[w].entries = << >>
    /\ LET req == workers[w].req
           tx == unitOfWork[w].transaction[1]
           accounts == ResolveMerchantAccount(unitOfWork[w].snapshot.ledgerAccounts,
                                              req.merchantId, tx.currency)
       IN  unitOfWork' = [unitOfWork EXCEPT ![w] =
              [@ EXCEPT !.ledgerAccounts = accounts,
                        !.entries =
                           createLedgerEntries(tx,
                               AccountId(accounts, "CARD_HOLDER", req.cardId),
                               AccountId(accounts, "MERCHANT", req.merchantId))]]
    /\ UNCHANGED <<cards, transactions, ledgerAccounts, ledgerEntries,
                   idempotencyKeys, workers, now, hwVars, requestCount, firstResponse,
                   transitionResult>>

\* COMMIT under READ COMMITTED: the rows written are added to the tables as
\* they are now, whatever was committed since BEGIN
TxCommit_ReadCommitted(w) ==
    /\ unitOfWork[w].open
    /\ unitOfWork[w].entries # << >>
    /\ transactions' = Append(transactions, unitOfWork[w].transaction[1])
    /\ ledgerAccounts' = ledgerAccounts \o
          SubSeq(unitOfWork[w].ledgerAccounts,
                 Len(unitOfWork[w].snapshot.ledgerAccounts) + 1,
                 Len(unitOfWork[w].ledgerAccounts))
    /\ ledgerEntries' = insertLedgerEntries(unitOfWork[w].entries)
    /\ Respond(w, Approved(unitOfWork[w].transaction[1].id))
    /\ unitOfWork' = [unitOfWork EXCEPT ![w] = NoUnit]
    /\ UNCHANGED <<cards, now, hwVars, requestCount, transitionResult>>

\* COMMIT: no other DB transaction has committed to the tables since BEGIN
TxCommit(w) ==
    /\ unitOfWork[w].open
    /\ unitOfWork[w].entries # << >>
    /\ Tables = unitOfWork[w].snapshot
    /\ transactions' = Append(transactions, unitOfWork[w].transaction[1])
    /\ ledgerAccounts' = unitOfWork[w].ledgerAccounts
    /\ ledgerEntries' = insertLedgerEntries(unitOfWork[w].entries)
    /\ Respond(w, Approved(unitOfWork[w].transaction[1].id))
    /\ unitOfWork' = [unitOfWork EXCEPT ![w] = NoUnit]
    /\ UNCHANGED <<cards, now, hwVars, requestCount, transitionResult>>

\* the database may abort this DB transaction with a serialization failure
Conflicts(w) ==
    \/ Tables # unitOfWork[w].snapshot
    \/ \E v \in Workers \ {w} : unitOfWork[v].open

\* Serialization failure: the DB transaction is rolled back.  It is attempted
\* again while retries are left; after the last one the failure is the answer.
TxSerializationFailure(w) ==
    /\ unitOfWork[w].open
    /\ Conflicts(w)
    /\ IF unitOfWork[w].attempt < MaxRetries
       THEN /\ unitOfWork' = [unitOfWork EXCEPT ![w] =
                  [NoUnit EXCEPT !.attempt = unitOfWork[w].attempt + 1]]
            /\ UNCHANGED <<workers, idempotencyKeys, firstResponse>>
       ELSE /\ unitOfWork' = [unitOfWork EXCEPT ![w] = NoUnit]
            /\ Respond(w, TransientFailure)
    /\ UNCHANGED <<cards, transactions, ledgerAccounts, ledgerEntries, now, hwVars,
                   requestCount, transitionResult>>

\* ------------------------------------------------------------ processSettlement
NotFound == Response(404, FALSE, {}, {}, "transaction_not_found")

UnsupportedEvent == Response(422, FALSE, {}, {}, "unsupported_event")

Settled(id) == Response(200, TRUE, {}, {id}, "none")

\* the row is found by its authorizationCode, whatever its status
Settleable_AnyStatus(t, authorizationCode) ==
    t.authorizationCode = {authorizationCode}

\* a reversed authorization can still be settled
Settleable_AlsoReversed(t, authorizationCode) ==
    /\ t.authorizationCode = {authorizationCode}
    /\ t.status \in {"AUTHORIZED", "REVERSED"}

\* the existing AUTHORIZED Transaction with the authorizationCode
Settleable(t, authorizationCode) ==
    /\ t.authorizationCode = {authorizationCode}
    /\ t.status = "AUTHORIZED"

\* a settlement of less than the authorized amount is taken
SettlementMatches_AllowsPartial(req, tx) ==
    /\ req.settlementAmountMinor <= tx.amountMinor
    /\ req.settlementCurrency = tx.currency

\* settlementAmountMinor == amountMinor and settlementCurrency == currency
SettlementMatches(req, tx) ==
    /\ req.settlementAmountMinor = tx.amountMinor
    /\ req.settlementCurrency = tx.currency

\* Find the existing AUTHORIZED Transaction by authorizationCode, validate the
\* amount and the currency, and update its status to SETTLED in place.
processSettlement(w) ==
    /\ workers[w].pc = "settle"
    /\ LET req == workers[w].req
           found == RowIds(transactions,
                           LAMBDA t : Settleable(t, req.authorizationCode))
       IN  IF found = {}
           THEN /\ Respond(w, NotFound)
                /\ UNCHANGED transactions
           ELSE LET id == CHOOSE i \in found : TRUE
                    tx == transactions[id]
                IN  IF ~SettlementMatches(req, tx)
                    THEN /\ Respond(w, UnsupportedEvent)
                         /\ UNCHANGED transactions
                    ELSE /\ transactions' =
                               [transactions EXCEPT ![id].status = "SETTLED"]
                         /\ Respond(w, Settled(id))
    /\ UNCHANGED <<cards, ledgerAccounts, ledgerEntries, now, hwVars, unitOfWork, transitionResult,
                   requestCount>>

\* ---------------------------------------------------------------- processRefund
RefundRejected(error) == Response(422, FALSE, {}, {}, error)

Refunded(id) == Response(201, TRUE, {}, {id}, "none")

\* earlier refunds of the original are not counted
TotalRefunded_IgnoresEarlierRefunds(originalId) == 0

\* total refunded so far: SUM(amountMinor) of the REFUND transactions linked
\* to the original
TotalRefunded(originalId) ==
    SumAmounts(transactions,
               RowIds(transactions,
                      LAMBDA t : /\ t.type = "REFUND"
                                 /\ t.originalTransactionId = {originalId}))

\* every row that posted ledger entries can be refunded, whatever it is now
Refundable_AnyPostedRow(original) == original.status # "DECLINED"

\* the original of a refund is an authorization that is AUTHORIZED or SETTLED
Refundable(original) ==
    /\ original.type = "AUTHORIZATION"
    /\ original.status \in {"AUTHORIZED", "SETTLED"}

\* every refund of the full amount counts as a reversal
IsReversal_AnyFullRefund(req, amountMinor, original) ==
    amountMinor = original.amountMinor

\* a processor-initiated reversal: the processor's refund event for the full
\* amount of the original
IsReversal(req, amountMinor, original) ==
    req.processorInitiated /\ amountMinor = original.amountMinor

\* A new Transaction (REFUND, REFUNDED) linked to the original, with the
\* reverse ledger pair; the refund amount defaults to the original amount and
\* the total refunded may not exceed it.  The original is a row of the table
\* (originalTransactionId is a foreign key) that is AUTHORIZED or SETTLED.  The processor's full-amount reversal
\* also sets the original's status to REVERSED.
processRefund(w) ==
    /\ workers[w].pc = "refund"
    /\ LET req == workers[w].req
           original == transactions[req.originalTransactionId]
           amountMinor == IF req.refundAmountMinor = {}
                          THEN original.amountMinor
                          ELSE CHOOSE a \in req.refundAmountMinor : TRUE
           id == Len(transactions) + 1
           tx == NewTransaction(id, original.cardId, {original.id}, "REFUND",
                                "REFUNDED", amountMinor,
                                [merchantId |-> original.merchantId,
                                 merchantCategoryCode |-> original.merchantCategoryCode,
                                 idempotencyKey |-> req.idempotencyKey],
                                "none")
           reversal == IsReversal(req, amountMinor, original)
       IN  IF req.originalTransactionId \notin DOMAIN transactions
           THEN /\ Respond(w, NotFound)
                /\ UNCHANGED <<transactions, ledgerEntries>>
           ELSE IF ~Refundable(original)
           THEN /\ Respond(w, RefundRejected("original_not_refundable"))
                /\ UNCHANGED <<transactions, ledgerEntries>>
           ELSE IF TotalRefunded(original.id) + amountMinor > original.amountMinor
           THEN /\ Respond(w, RefundRejected("refund_exceeds_original"))
                /\ UNCHANGED <<transactions, ledgerEntries>>
           ELSE /\ transactions' =
                      Append(IF reversal
                             THEN [transactions EXCEPT ![original.id].status = "REVERSED"]
                             ELSE transactions,
                             tx)
                /\ ledgerEntries' = insertLedgerEntries(
                      createLedgerEntries(tx,
                          AccountId(ledgerAccounts, "CARD_HOLDER", original.cardId),
                          AccountId(ledgerAccounts, "MERCHANT", original.merchantId)))
                /\ Respond(w, Refunded(id))
    /\ UNCHANGED <<cards, ledgerAccounts, now, hwVars, unitOfWork, transitionResult, requestCount>>

\* -------------------------------------------------------- rateLimiter(req, res, next)
\* "Get or create request count entry for this IP": the Map after the request
\* at `time` has been counted
Counted(map, ip, time) ==
    IF ip \notin DOMAIN map
    THEN MapSet(map, ip, [count |-> 1, resetTime |-> time + WINDOW_MS])
    ELSE IF time > map[ip].resetTime
    THEN MapSet(map, ip, [count |-> 1, resetTime |-> time + WINDOW_MS])
    ELSE MapSet(map, ip, [map[ip] EXCEPT !.count = @ + 1])

\* Math.max(0, MAX_REQUESTS - data.count)
Remaining(data) ==
    IF MAX_REQUESTS - data.count > 0 THEN MAX_REQUESTS - data.count ELSE 0

\* status 429 when the limit is exceeded, otherwise next(): the status is
\* left to the route handler (0 here)
Decision(data) == IF data.count > MAX_REQUESTS THEN 429 ELSE 0

\* the headers and the decision of rateLimiter() for a request of `ip` at
\* `time` against the Map `map`
LimiterAnswer(map, ip, time) ==
    LET data == Counted(map, ip, time)[ip]
    IN  [ip |-> ip, status |-> Decision(data), remaining |-> Remaining(data),
         resetTime |-> data.resetTime, created |-> ip \notin DOMAIN map]

rateLimiter(ip) ==
    /\ limiterRequests < MaxLimiterRequests
    /\ limiterRequests' = limiterRequests + 1
    /\ requestCounts' = Counted(requestCounts, ip, clock)
    /\ limiterResponse' = LimiterAnswer(requestCounts, ip, clock)
    /\ passed' = IF LimiterAnswer(requestCounts, ip, clock).status = 429
                 THEN passed
                 ELSE [passed EXCEPT ![ip] = Append(@, clock)]
    /\ withoutCleanup' = Counted(withoutCleanup, ip, clock)
    /\ UNCHANGED <<clock, platformVars, ticketVars, shutdownVars>>

\* entries are deleted as soon as their reset time is reached
Expired_AtResetTime(map, time) ==
    { ip \in DOMAIN map : time >= map[ip].resetTime }

\* the entries cleanupExpiredEntries() deletes at `time`
Expired(map, time) == { ip \in DOMAIN map : time > map[ip].resetTime }

\* setInterval(cleanupExpiredEntries, 30000)
cleanupExpiredEntries ==
    /\ requestCounts' = MapDelete(requestCounts, Expired(requestCounts, clock))
    /\ UNCHANGED <<clock, limiterResponse, passed, limiterRequests,
                   withoutCleanup, platformVars, ticketVars, shutdownVars>>

\* time passes
Tick ==
    /\ clock < MaxClock
    /\ clock' = clock + 1
    /\ UNCHANGED <<requestCounts, limiterResponse, passed, limiterRequests,
                   withoutCleanup, platformVars, ticketVars, shutdownVars>>

\* ------------------------------------------------------ POST /tickets/import
\* a call of the parser of the file's format
callParse(file) ==
    /\ importFile' = file
    /\ importResult' = Parse(file)
    /\ UNCHANGED <<importResponse, ticketTable, ticketClock, ticketResponse,
                   ticketRequests, platformVars, limiterVars, shutdownVars>>

callParseCSV(file) == file.extension = "csv" /\ callParse(file)

callParseJSON(file) == file.extension = "json" /\ callParse(file)

callParseXML(file) == file.extension = "xml" /\ callParse(file)

\* the three statements of the route that follow bulkCreateTickets when it
\* returned fewer rows than were validated, in their order
ReportSaveFailures(validationResult, resultLength) ==
    LET raised == [validationResult EXCEPT
                     !.failed = @ + (validationResult.successful - resultLength)]
        lowered == [raised EXCEPT !.successful = resultLength]
    IN  [lowered EXCEPT !.errors =
            Append(@, ImportError(0, {lowered.successful - resultLength},
                                  "tickets failed to save to database"))]

BadRequest == [NoImportResponse EXCEPT !.status = 400]

\* router.post('/import'): the upload (none, or a file), and the positions of
\* the valid tickets whose create fails in the database
postImport(upload, failing) ==
    /\ ticketRequests < MaxTicketRequests
    /\ ticketRequests' = ticketRequests + 1
    /\ IF upload = NoFile \/ upload.extension \notin {"csv", "json", "xml"}
       THEN /\ failing = {}
            /\ importResponse' = BadRequest
            /\ UNCHANGED <<importFile, importResult, ticketTable>>
       ELSE LET validationResult == Parse(upload)
                tickets == extractValidTickets(upload)
                table == bulkCreateTickets(ticketTable, tickets, failing, ticketClock)
                resultLength == Len(table) - Len(ticketTable)
            IN  /\ importFile' = upload
                /\ importResult' = validationResult
                /\ IF validationResult.successful > 0
                   THEN /\ failing \subseteq 1..Len(tickets)
                        /\ ticketTable' = table
                        /\ importResponse' =
                              [status |-> 200,
                               body |-> IF resultLength < validationResult.successful
                                        THEN ReportSaveFailures(validationResult,
                                                                resultLength)
                                        ELSE validationResult,
                               validation |-> validationResult,
                               saved |-> resultLength]
                   ELSE /\ failing = {}
                        /\ UNCHANGED ticketTable
                        /\ importResponse' =
                              [status |-> 200, body |-> validationResult,
                               validation |-> validationResult, saved |-> 0]
    /\ UNCHANGED <<ticketClock, ticketResponse, platformVars, limiterVars,
                   shutdownVars>>

\* ------------------------------------------------------- PUT /tickets/:id
MaxTickets == 1
MaxTicketCalls == 4

\* bodies of POST /tickets: the ticket of the test, and one with the optional
\* fields
CreateBodies ==
    { [customer_id |-> "CUST001", customer_email |-> "valid@example.com",
       description |-> "Test description"],
      [customer_id |-> "CUST002", customer_email |-> "valid@example.com",
       description |-> "Cannot log in to my account", category |-> "account_access",
       priority |-> "urgent", status |-> "new", assigned_to |-> "agent@test.com",
       tags |-> << "login" >>],
      [customer_id |-> "", customer_email |-> "valid@example.com",
       description |-> "Test description"] }

Datetimes == {"2026-02-01T10:00:00.000Z"}

\* bodies of PUT /tickets/:id
UpdateBodies ==
    { [status |-> "in_progress"],
      [priority |-> "high"],
      [assigned_to |-> "agent@test.com"],
      [assigned_to |-> ""],
      [tags |-> << >>],
      [tags |-> << "urgent" >>],
      [resolved_at |-> "2026-02-01T10:00:00.000Z"],
      [resolved_at |-> "tomorrow"],
      [customer_id |-> ""],
      [description |-> "Updated description", category |-> "bug_report"],
      [status |-> "resolved", priority |-> "low"],
      [source |-> "email"] }

\* the fields of UpdateTicketSchema and their columns in the tickets table
UpdateColumns ==
    [customer_id |-> "customerId", customer_email |-> "customerEmail",
     description |-> "description", category |-> "category",
     priority |-> "priority", status |-> "status",
     assigned_to |-> "assignedTo", tags |-> "tags",
     resolved_at |-> "resolvedAt"]

\* z.object strips the keys the schema does not name
Stripped(body) ==
    [f \in DOMAIN body \cap DOMAIN UpdateColumns |-> body[f]]

\* UpdateTicketSchema.parse(body) does not throw
UpdateTicketSchema(body) ==
    /\ Has(body, "customer_id") => Len(body.customer_id) >= 1
    /\ Has(body, "customer_email") => body.customer_email \in Emails
    /\ Has(body, "description") =>
          Len(body.description) >= 10 /\ Len(body.description) <= 2000
    /\ Has(body, "category") => body.category \in DOMAIN categoryMap
    /\ Has(body, "priority") => body.priority \in DOMAIN priorityMap
    /\ Has(body, "status") => body.status \in DOMAIN statusMap
    /\ Has(body, "resolved_at") => body.resolved_at \in Datetimes

\* every field is copied on `if (data.field)`, assigned_to too
Copied_TruthyOnly(data) ==
    { f \in DOMAIN data : IF f = "tags" THEN TRUE ELSE data[f] # "" }

\* the fields updateTicket copies to updateData: `if (data.field)` is true of
\* a non-empty string and of every array; assigned_to is tested against
\* undefined
Copied(data) ==
    { f \in DOMAIN data :
        IF f \in {"assigned_to", "tags"} THEN TRUE ELSE data[f] # "" }

\* the value updateTicket writes for a field
ColumnValue(f, value) ==
    CASE f = "category" -> categoryMap[value]
      [] f = "priority" -> priorityMap[value]
      [] f = "status" -> statusMap[value]
      [] f = "assigned_to" -> {value}
      [] f = "resolved_at" -> {value}
      [] OTHER -> value

\* updateData of TicketService.updateTicket(id, data)
updateData(data) ==
    [col \in { UpdateColumns[f] : f \in Copied(data) } |->
        LET f == CHOOSE g \in Copied(data) : UpdateColumns[g] = col
        IN  ColumnValue(f, data[f])]

\* prisma.ticket.update({ where: { id }, data }): the columns of data are
\* assigned and updated_at, which has no default and is never passed, is set
\* by the client to the time of the call
prismaUpdate(row, data, time) ==
    [col \in DOMAIN row |->
        IF col \in DOMAIN data THEN data[col]
        ELSE IF col = "updatedAt" THEN time
        ELSE row[col]]

\* TicketService.updateTicket(id, data): the row after the update
updateTicket(row, data, time) == prismaUpdate(row, updateData(data), time)

TicketResponse(status, id, request, before, body) ==
    [status |-> status, id |-> id, request |-> request, before |-> before,
     body |-> body]

\* router.post('/'): validation, then createTicket
postTicket(body) ==
    /\ ticketRequests < MaxTicketCalls
    /\ Len(ticketTable) < MaxTickets
    /\ ticketRequests' = ticketRequests + 1
    /\ IF ~CreateTicketSchema(body)
       THEN /\ ticketResponse' = TicketResponse(400, 0, body, << >>, << >>)
            /\ UNCHANGED ticketTable
       ELSE LET id == Len(ticketTable) + 1
                row == createTicket(body, id, ticketClock)
            IN  /\ ticketTable' = Append(ticketTable, row)
                /\ ticketResponse' = TicketResponse(201, id, body, << >>, row)
    /\ UNCHANGED <<importFile, importResult, importResponse, ticketClock,
                   platformVars, limiterVars, shutdownVars>>

\* router.put('/:id'): validation, then updateTicket; an update of a row that
\* does not exist throws "... not found"
putTicket(id, body) ==
    /\ ticketRequests < MaxTicketCalls
    /\ ticketRequests' = ticketRequests + 1
    /\ IF ~UpdateTicketSchema(body)
       THEN /\ ticketResponse' = TicketResponse(400, id, body, << >>, << >>)
            /\ UNCHANGED ticketTable
       ELSE IF id \notin DOMAIN ticketTable
       THEN /\ ticketResponse' = TicketResponse(404, id, body, << >>, << >>)
            /\ UNCHANGED ticketTable
       ELSE LET validatedData == Stripped(body)
                row == updateTicket(ticketTable[id], validatedData, ticketClock)
            IN  /\ ticketTable' = [ticketTable EXCEPT ![id] = row]
                /\ ticketResponse' =
                      TicketResponse(200, id, validatedData, ticketTable[id], row)
    /\ UNCHANGED <<importFile, importResult, importResponse, ticketClock,
                   platformVars, limiterVars, shutdownVars>>

\* time passes
TicketTick ==
    /\ ticketClock < MaxTicketClock
    /\ ticketClock' = ticketClock + 1
    /\ UNCHANGED <<importFile, importResult, importResponse, ticketTable,
                   ticketResponse, ticketRequests, platformVars, limiterVars,
                   shutdownVars>>

\* ------------------------------------------------- gracefulShutdown(signal)
\* homework-2 src/index.ts.  A call of gracefulShutdown is at one of:
\*   "closing"       awaiting server.close(callback) called on a running server
\*   "notRunning"    awaiting server.close(callback) called on a server that
\*                   had been closed: the callback gets ERR_SERVER_NOT_RUNNING
\*   "disconnecting" awaiting disconnectDatabase()
\*   "exited"        process.exit has been called here
ShutdownFrame == UNCHANGED <<platformVars, limiterVars, ticketVars>>

\* a request arrives at the listening server
acceptRequest ==
    /\ exitCode = {}
    /\ server = "listening"
    /\ inFlight < MaxInFlight
    /\ inFlight' = inFlight + 1
    /\ UNCHANGED <<server, database, shutdowns, exitCode>>
    /\ ShutdownFrame

\* a request is answered and its connection ends
completeRequest ==
    /\ exitCode = {}
    /\ inFlight > 0
    /\ inFlight' = inFlight - 1
    /\ UNCHANGED <<server, database, shutdowns, exitCode>>
    /\ ShutdownFrame

\* process.on(signal): gracefulShutdown runs up to its first await; close()
\* stops the server from listening, or, on a server that is not listening any
\* more, only registers the callback
gracefulShutdown(signal) ==
    /\ exitCode = {}
    /\ Len(shutdowns) < MaxSignals
    /\ IF server = "listening"
       THEN /\ server' = "closing"
            /\ shutdowns' = Append(shutdowns, [signal |-> signal, at |-> "closing"])
       ELSE /\ UNCHANGED server
            /\ shutdowns' = Append(shutdowns, [signal |-> signal, at |-> "notRunning"])
    /\ UNCHANGED <<inFlight, database, exitCode>>
    /\ ShutdownFrame

\* the server's 'close' event, once no connection is left: the callbacks run
\* in the order they were registered, then the calls awaiting them go on.  The
\* call whose callback got no error starts disconnectDatabase(); a call whose
\* callback got the error reaches process.exit(1).
serverClose ==
    /\ exitCode = {}
    /\ server \in {"closing", "closed"}
    /\ inFlight = 0
    /\ \E i \in DOMAIN shutdowns : shutdowns[i].at \in {"closing", "notRunning"}
    /\ server' = "closed"
    /\ database' =
          IF (\E i \in DOMAIN shutdowns : shutdowns[i].at = "closing")
             /\ database = "connected"
          THEN "disconnecting"
          ELSE database
    /\ shutdowns' =
          [i \in DOMAIN shutdowns |->
              CASE shutdowns[i].at = "closing" ->
                      [shutdowns[i] EXCEPT !.at = "disconnecting"]
                [] shutdowns[i].at = "notRunning" ->
                      [shutdowns[i] EXCEPT !.at = "exited"]
                [] OTHER -> shutdowns[i]]
    /\ exitCode' =
          IF \E i \in DOMAIN shutdowns : shutdowns[i].at = "notRunning"
          THEN {1}
          ELSE exitCode
    /\ UNCHANGED inFlight
    /\ ShutdownFrame

\* prisma.$disconnect() settles: the call awaiting it reaches process.exit(0),
\* or process.exit(1) when it rejected
databaseDisconnect(rejected) ==
    /\ exitCode = {}
    /\ database = "disconnecting"
    /\ database' = IF rejected THEN "failed" ELSE "disconnected"
    /\ shutdowns' =
          [i \in DOMAIN shutdowns |->
              IF shutdowns[i].at = "disconnecting"
              THEN [shutdowns[i] EXCEPT !.at = "exited"]
              ELSE shutdowns[i]]
    /\ exitCode' = IF rejected THEN {1} ELSE {0}
    /\ UNCHANGED <<server, inFlight>>
    /\ ShutdownFrame

\* ---------------------------------------------------------------------- Next
\* the steps of the request handlers
Handle(w) ==
    \/ Unblock(w)
    \/ AuthFindCard(w)
    \/ AuthEvaluate(w)
    \/ AuthCommit(w)
    \/ processSettlement(w)
    \/ processRefund(w)

Next ==
    \/ \E c \in CardIds : activateCard(c)
    \/ \E c \in CardIds : freezeCard(c)
    \/ \E c \in CardIds : unfreezeCard(c)
    \/ \E c \in CardIds : closeCard(c)
    \/ \E c \in CardIds, limits \in LimitChoices : updateLimits(c, limits)
    \/ NextDay
    \/ \E w \in Workers : ReceiveAuthorize(w, MaxRequests)
    \/ \E w \in Workers : ReceiveSettle(w, MaxRequests)
    \/ \E w \in Workers : ReceiveRefund(w, MaxRequests)
    \/ \E w \in Workers : Handle(w)

Spec == Init /\ [][Next]_vars

\* Webhook ingestion on its own: the card lifecycle and the request handlers
\* within one UTC day and with the limits the card was created with, so that
\* a longer run of requests (an event, its effect, and a retry) is covered.
NextWebhook ==
    \/ \E c \in CardIds : activateCard(c)
    \/ \E c \in CardIds : freezeCard(c)
    \/ \E c \in CardIds : unfreezeCard(c)
    \/ \E c \in CardIds : closeCard(c)
    \/ \E w \in Workers : ReceiveAuthorize(w, MaxWebhookRequests)
    \/ \E w \in Workers : ReceiveSettle(w, MaxWebhookRequests)
    \/ \E w \in Workers : ReceiveRefund(w, MaxWebhookRequests)
    \/ \E w \in Workers : Handle(w)

SpecWebhook == Init /\ [][NextWebhook]_vars

\* Authorizations with the serializable unit of work taken statement by
\* statement, under serialization failures.
HandleRetry(w) ==
    \/ Unblock(w)
    \/ AuthFindCard(w)
    \/ AuthEvaluate(w)
    \/ TxBegin(w)
    \/ TxInsertTransaction(w)
    \/ TxInsertLedgerEntries(w)
    \/ TxCommit(w)
    \/ TxSerializationFailure(w)

NextRetry ==
    \/ \E c \in CardIds : activateCard(c)
    \/ \E c \in CardIds : freezeCard(c)
    \/ \E w \in Workers : ReceiveAuthorize(w, MaxRequests)
    \/ \E w \in Workers : HandleRetry(w)

SpecRetry == Init /\ [][NextRetry]_vars

\* The ledger with two merchants: authorizations of allowed categories with
\* either merchant, settlements and refunds, on a card that stays ACTIVE once
\* activated.
LedgerMerchantIds == {"m1", "m2"}

LedgerAuthorizeRequests ==
    [kind : {"authorize"}, cardId : CardIds, amountMinor : Amounts,
     merchantId : LedgerMerchantIds, merchantCategoryCode : {"5411"},
     idempotencyKey : IdempotencyKeyValues]

NextLedger ==
    \/ \E c \in CardIds : activateCard(c)
    \/ \E w \in Workers, req \in LedgerAuthorizeRequests :
          Receive(w, req, MaxWebhookRequests)
    \/ \E w \in Workers : ReceiveSettle(w, MaxWebhookRequests)
    \/ \E w \in Workers : ReceiveRefund(w, MaxWebhookRequests)
    \/ \E w \in Workers : Handle(w)

SpecLedger == Init /\ [][NextLedger]_vars

\* The rate limiter of homework-1: requests of two clients, the periodic
\* cleanup, and the clock.
NextLimiter ==
    \/ \E ip \in IPs : rateLimiter(ip)
    \/ cleanupExpiredEntries
    \/ Tick

SpecLimiter == Init /\ [][NextLimiter]_vars

\* The import of homework-2: the parsers called on every file, and the import
\* route with database failures.
Uploads ==
    Files \cup {NoFile, [extension |-> "txt", kind |-> "records", records |-> << >>]}

NextImport ==
    \/ \E file \in Files : callParseCSV(file)
    \/ \E file \in Files : callParseJSON(file)
    \/ \E file \in Files : callParseXML(file)
    \/ \E upload \in Uploads, failing \in SUBSET (1..MaxRecords) :
          postImport(upload, failing)

SpecImport == Init /\ [][NextImport]_vars

\* The ticket routes of homework-2: a ticket is created and updated field by
\* field while time passes.
NextTickets ==
    \/ \E body \in CreateBodies : postTicket(body)
    \/ \E id \in 1..(MaxTickets + 1), body \in UpdateBodies : putTicket(id, body)
    \/ TicketTick

SpecTickets == Init /\ [][NextTickets]_vars

\* The ticket server process of homework-2 from listening to exit.
NextShutdown ==
    \/ acceptRequest
    \/ completeRequest
    \/ \E signal \in Signals : gracefulShutdown(signal)
    \/ serverClose
    \/ \E rejected \in BOOLEAN : databaseDisconnect(rejected)

SpecShutdown == Init /\ [][NextShutdown]_vars

\* The card state machine on its own: transition() called with every pair of
\* states, on cards whose limits change and that are closed on different days.
NextFSM ==
    \/ \E c \in CardIds, requested \in CardStatus : transitionCard(c, requested)
    \/ \E c \in CardIds, limits \in LimitChoices : updateLimits(c, limits)
    \/ NextDay

SpecFSM == Init /\ [][NextFSM]_vars

\* ===================================================================== properties
\* ledger entries of a transaction, by id
EntriesOf(id) == RowIds(ledgerEntries, LAMBDA e : e.transactionId = id)

EntriesOfType(id, entryType) ==
    RowIds(ledgerEntries, LAMBDA e : e.transactionId = id /\ e.entryType = entryType)

\* a transaction that must have posted a ledger pair
PostsLedgerPair(t) ==
    \/ t.type = "REFUND"
    \/ t.type = "AUTHORIZATION" /\ t.status = "AUTHORIZED"

\* C1: in every committed state each REFUND transaction and each AUTHORIZED
\* authorization has exactly two ledger entries, one DEBIT and one CREDIT, both
\* of the transaction's amount, and for every transaction id the DEBIT total
\* equals the CREDIT total.
C1_DoubleEntry ==
    \A id \in 1..Len(transactions) :
        /\ PostsLedgerPair(transactions[id]) =>
              /\ Cardinality(EntriesOf(id)) = 2
              /\ Cardinality(EntriesOfType(id, "DEBIT")) = 1
              /\ Cardinality(EntriesOfType(id, "CREDIT")) = 1
              /\ \A e \in EntriesOf(id) :
                    ledgerEntries[e].amountMinor = transactions[id].amountMinor
        /\ SumAmounts(ledgerEntries, EntriesOfType(id, "DEBIT"))
              = SumAmounts(ledgerEntries, EntriesOfType(id, "CREDIT"))

\* an AUTHORIZED authorization and a REFUND are both on the books
C1_Witness ==
    /\ \E id \in 1..Len(transactions) :
          /\ transactions[id].type = "AUTHORIZATION"
          /\ transactions[id].status = "AUTHORIZED"
          /\ Cardinality(EntriesOf(id)) = 2
    /\ \E id \in 1..Len(transactions) :
          /\ transactions[id].type = "REFUND"
          /\ Cardinality(EntriesOf(id)) = 2

\* C2: authorizations processed concurrently against one card never take the
\* day's sum of AUTHORIZED/SETTLED amounts above the card's daily limit: an
\* approval that commits while the limit is the one its handler evaluated
\* leaves the sum within that limit.
C2_DailyLimitNeverExceeded ==
    [][\A w \in Workers, c \in CardIds :
          ( /\ workers[w].pc = "commit"
            /\ workers'[w].pc = "done"
            /\ workers[w].req.cardId = c
            /\ cards'[c].dailyLimit = workers[w].card.dailyLimit )
          => DailySum(c)' <= cards'[c].dailyLimit]_vars

\* ------------------------------------------------------- idempotency properties
\* the Transaction rows that carry an idempotency key
TransactionsOfKey(k) == RowIds(transactions, LAMBDA t : t.idempotencyKey = k)

\* the handler is inside the business logic
Executing(w) == workers[w].pc \in {"findCard", "evaluate", "commit", "settle", "refund"}

\* this step hands a request to handler w (the request is workers'[w].req)
Arrives(w) ==
    /\ requestCount' = requestCount + 1
    /\ Free(w)
    /\ \A v \in Workers : v < w => ~Free(v)

\* this step lets handler w go on after waiting on the (key, scope) row
Resumes(w) == workers[w].pc = "blocked" /\ workers'[w] # workers[w]

\* the first execution under a complete (key, scope) row inserted a Transaction:
\* every authorization does (AUTHORIZED or DECLINED), a refund does when it is
\* accepted, a settlement never does
FirstCreatesRow(rec) ==
    \/ rec.payloadHash[2].kind = "authorize"
    \/ rec.payloadHash[2].kind = "refund" /\ rec.response.status = 201

\* a request arrives whose (key, scope) row is complete and whose payload is
\* the one first seen; it is answered with the first response and nothing runs
ReplayAnswered ==
    \A w \in Workers :
        ( /\ Arrives(w)
          /\ idempotencyKeys[IdemKey(workers'[w].req)].state = "done"
          /\ idempotencyKeys[IdemKey(workers'[w].req)].payloadHash
                = PayloadHash(workers'[w].req) )
        => /\ workers'[w].pc = "done"
           /\ workers'[w].resp = firstResponse[workers'[w].req.idempotencyKey]
           /\ UNCHANGED <<cards, transactions, ledgerAccounts, ledgerEntries,
                          idempotencyKeys, firstResponse>>

\* C3: a repeated authorize, settle or refund request with an already-seen
\* (idempotencyKey, scope) and identical payload returns the response of the
\* first execution and re-executes nothing: Transaction and LedgerEntry rows
\* are unchanged.  At most one Transaction carries the key: exactly one when the
\* first execution was an authorization or an accepted refund, none when it was
\* a settlement or a rejected refund.
C3_ReplayIsIdempotent ==
    /\ [](\A k \in IdempotencyKeyValues :
            /\ Cardinality(TransactionsOfKey(k)) <= 1
            /\ idempotencyKeys[<<k, WebhookScope>>].state = "done" =>
                  Cardinality(TransactionsOfKey(k)) =
                     IF FirstCreatesRow(idempotencyKeys[<<k, WebhookScope>>])
                     THEN 1 ELSE 0)
    /\ [][ReplayAnswered]_vars

\* a settlement was retried with the same key and payload and got the cached
\* 200 again; the settled authorization carries its own key, not this one
C3_Witness ==
    \E w \in Workers :
        /\ workers[w].outcome = "replayed"
        /\ workers[w].req.kind = "settle"
        /\ workers[w].resp = firstResponse[workers[w].req.idempotencyKey]
        /\ workers[w].resp.status = 200
        /\ TransactionsOfKey(workers[w].req.idempotencyKey) = {}
        /\ \E id \in 1..Len(transactions) : transactions[id].status = "SETTLED"

\* C3 as stated: a replay returns the first response, changes no rows, and
\* exactly one Transaction exists for the replayed key.
C3_ExactlyOneTransactionPerKey ==
    /\ [](\A w \in Workers :
            workers[w].outcome = "replayed" =>
               Cardinality(TransactionsOfKey(workers[w].req.idempotencyKey)) = 1)
    /\ [][ReplayAnswered]_vars

\* C4: when two first attempts with the same (key, scope) run concurrently the
\* business logic runs for one of them only: the other waits on the row until
\* the winner has committed and is then answered from the row (the winner's
\* response when the payload is the same), so at most one Transaction carries
\* the key.
C4_SingleExecutionPerKey ==
    /\ [](\A k \in IdempotencyKeyValues :
            /\ Cardinality({w \in Workers :
                              Executing(w) /\ workers[w].req.idempotencyKey = k}) <= 1
            /\ Cardinality(TransactionsOfKey(k)) <= 1
            /\ \A w \in Workers :
                  Executing(w) /\ workers[w].req.idempotencyKey = k =>
                     idempotencyKeys[<<k, WebhookScope>>].state = "in_flight")
    /\ [][\A w \in Workers :
            /\ ( Arrives(w)
                 /\ idempotencyKeys[IdemKey(workers'[w].req)].state = "in_flight" )
               => /\ workers'[w].pc = "blocked"
                  /\ UNCHANGED <<transactions, ledgerEntries, idempotencyKeys>>
            /\ Resumes(w)
               => /\ idempotencyKeys[IdemKey(workers[w].req)].state = "done"
                  /\ workers'[w].pc = "done"
                  /\ workers'[w].req = workers[w].req
                  /\ idempotencyKeys[IdemKey(workers[w].req)].payloadHash
                        = PayloadHash(workers[w].req)
                     => workers'[w].resp = firstResponse[workers[w].req.idempotencyKey]
                  /\ UNCHANGED <<transactions, ledgerEntries, idempotencyKeys>>]_vars

\* the race is on: one handler is about to commit an approval while another
\* waits with the same key and payload
C4_Witness ==
    \E w, v \in Workers :
        /\ workers[w].pc = "blocked"
        /\ workers[v].pc = "commit"
        /\ workers[v].req = workers[w].req

\* C5: a request that reuses an already-seen (idempotencyKey, scope) with a
\* different payload is answered 409 Conflict and creates no Transaction and no
\* LedgerEntry.
C5_PayloadMismatchConflicts ==
    /\ [](\A w \in Workers :
            workers[w].outcome = "conflict" =>
               /\ workers[w].resp = Conflict
               /\ idempotencyKeys[IdemKey(workers[w].req)].payloadHash
                     # PayloadHash(workers[w].req))
    /\ [][\A w \in Workers :
            ( /\ Arrives(w) \/ Resumes(w)
              /\ idempotencyKeys[IdemKey(workers'[w].req)].state = "done"
              /\ idempotencyKeys[IdemKey(workers'[w].req)].payloadHash
                    # PayloadHash(workers'[w].req) )
            => /\ workers'[w].pc = "done"
               /\ workers'[w].resp = Conflict
               /\ workers'[w].resp.status = 409
               /\ UNCHANGED <<cards, transactions, ledgerAccounts, ledgerEntries,
                              idempotencyKeys, firstResponse>>]_vars

\* an approved authorization's key was reused with a different amount: the
\* second request got 409 and the key still has its one Transaction
C5_Witness ==
    \E w \in Workers :
        /\ workers[w].outcome = "conflict"
        /\ workers[w].resp.status = 409
        /\ workers[w].req.kind = "authorize"
        /\ \E id \in TransactionsOfKey(workers[w].req.idempotencyKey) :
              /\ transactions[id].status = "AUTHORIZED"
              /\ transactions[id].amountMinor # workers[w].req.amountMinor
        /\ Cardinality(TransactionsOfKey(workers[w].req.idempotencyKey)) = 1
        /\ Len(ledgerEntries) = 2

\* ---------------------------------------------------- card state machine properties
\* the five edges of the card state diagram, written out
LegalEdge(current, requested) ==
    \/ current = "PENDING" /\ requested = "ACTIVE"
    \/ current = "ACTIVE" /\ requested = "FROZEN"
    \/ current = "FROZEN" /\ requested = "ACTIVE"
    \/ current = "ACTIVE" /\ requested = "CLOSED"
    \/ current = "FROZEN" /\ requested = "CLOSED"

\* C6: transition(current, requested) returns requested exactly for the five
\* pairs PENDING->ACTIVE, ACTIVE->FROZEN, FROZEN->ACTIVE, ACTIVE->CLOSED and
\* FROZEN->CLOSED and fails with InvalidStateTransition for every other pair,
\* self-transitions and every pair out of CLOSED included; the card takes the
\* returned state and keeps its state on a failure.
C6_TransitionTable ==
    /\ \A current, requested \in CardStatus :
          transition(current, requested) =
             IF LegalEdge(current, requested)
             THEN requested
             ELSE InvalidStateTransitionError
    /\ \A current \in CardStatus :
          /\ transition(current, current) = InvalidStateTransitionError
          /\ transition("CLOSED", current) = InvalidStateTransitionError
    /\ transitionResult # NoTransition =>
          /\ transitionResult.result =
                IF LegalEdge(transitionResult.current, transitionResult.requested)
                THEN transitionResult.requested
                ELSE InvalidStateTransitionError
          /\ cards[transitionResult.cardId].status =
                IF LegalEdge(transitionResult.current, transitionResult.requested)
                THEN transitionResult.requested
                ELSE transitionResult.current

\* a closed card was asked to become ACTIVE: the call failed and the card is
\* still CLOSED
C6_Witness ==
    /\ transitionResult.current = "CLOSED"
    /\ transitionResult.requested = "ACTIVE"
    /\ transitionResult.result = InvalidStateTransitionError
    /\ cards[transitionResult.cardId].status = "CLOSED"
    /\ cards[transitionResult.cardId].closedAt # {}

FindsCard(w) == workers[w].pc = "findCard" /\ workers'[w] # workers[w]

\* C8: processAuthorization on a card whose status is not ACTIVE creates exactly
\* one Transaction (AUTHORIZATION, DECLINED) with declineReason card_not_active
\* and no ledger entries and returns a denial, whatever the limits would say.
C8_NotActiveDeclined ==
    [][\A w \in Workers :
          ( FindsCard(w) /\ cards[workers[w].req.cardId].status # "ACTIVE" )
          => /\ Len(transactions') = Len(transactions) + 1
             /\ SubSeq(transactions', 1, Len(transactions)) = transactions
             /\ Last(transactions').type = "AUTHORIZATION"
             /\ Last(transactions').status = "DECLINED"
             /\ Last(transactions').declineReason = "card_not_active"
             /\ Last(transactions').cardId = workers[w].req.cardId
             /\ Last(transactions').amountMinor = workers[w].req.amountMinor
             /\ ledgerEntries' = ledgerEntries
             /\ ledgerAccounts' = ledgerAccounts
             /\ workers'[w].pc = "done"
             /\ workers'[w].resp.status = 200
             /\ ~workers'[w].resp.approved
             /\ workers'[w].resp.error = "card_not_active"]_vars

\* a request on a FROZEN card for a blocked MCC was declined with
\* card_not_active, not mcc_blocked, and has no ledger entries
C8_Witness ==
    \E id \in 1..Len(transactions) :
        /\ transactions[id].declineReason = "card_not_active"
        /\ transactions[id].status = "DECLINED"
        /\ cards[transactions[id].cardId].status = "FROZEN"
        /\ transactions[id].merchantCategoryCode
              \in cards[transactions[id].cardId].mccBlocklist
        /\ EntriesOf(id) = {}

\* this step is handler w evaluating the limits for its authorization
Evaluates(w) == workers[w].pc = "evaluate" /\ workers'[w] # workers[w]

\* the reason of the first failing check, in the order MCC blocklist,
\* per-transaction, daily, monthly; "none" when no check fails
FirstFailingCheck(card, cardId, amountMinor, mcc) ==
    CASE mcc \in card.mccBlocklist -> "mcc_blocked"
      [] mcc \notin card.mccBlocklist
         /\ amountMinor > card.singleTransactionLimit -> "per_transaction_limit"
      [] mcc \notin card.mccBlocklist
         /\ ~(amountMinor > card.singleTransactionLimit)
         /\ DailySum(cardId) + amountMinor > card.dailyLimit -> "daily_limit"
      [] mcc \notin card.mccBlocklist
         /\ ~(amountMinor > card.singleTransactionLimit)
         /\ ~(DailySum(cardId) + amountMinor > card.dailyLimit)
         /\ MonthlySum(cardId) + amountMinor > card.monthlyLimit -> "monthly_limit"
      [] OTHER -> "none"

\* C9: for an authorization on an ACTIVE card the evaluator allows the request
\* iff none of the four checks fails, and otherwise the recorded decline reason
\* is that of the first failing check in the order MCC blocklist,
\* per-transaction, daily, monthly (mcc_blocked, never daily_limit, when both
\* fail).
C9_FirstFailingCheckDecides ==
    [][\A w \in Workers, c \in CardIds :
          ( Evaluates(w) /\ workers[w].req.cardId = c )
          => IF FirstFailingCheck(workers[w].card, c, workers[w].req.amountMinor,
                                  workers[w].req.merchantCategoryCode) = "none"
             THEN /\ workers'[w].pc = "commit"
                  /\ transactions' = transactions
             ELSE /\ Len(transactions') = Len(transactions) + 1
                  /\ Last(transactions').status = "DECLINED"
                  /\ Last(transactions').declineReason =
                        FirstFailingCheck(workers[w].card, c,
                                          workers[w].req.amountMinor,
                                          workers[w].req.merchantCategoryCode)
                  /\ workers'[w].resp.error = Last(transactions').declineReason
                  /\ ~workers'[w].resp.approved
                  /\ ledgerEntries' = ledgerEntries]_vars

\* a request for a blocked MCC that also goes over the day's limit was declined
\* with mcc_blocked
C9_Witness ==
    \E id \in 1..Len(transactions) :
        LET t == transactions[id]
        IN  /\ t.status = "DECLINED"
            /\ t.declineReason = "mcc_blocked"
            /\ t.createdAt = now
            /\ t.merchantCategoryCode \in cards[t.cardId].mccBlocklist
            /\ DailySum(t.cardId) > 0
            /\ DailySum(t.cardId) + t.amountMinor > cards[t.cardId].dailyLimit

\* -------------------------------------------------------------- refund properties
\* this step is handler w processing its refund
Refunds(w) == workers[w].pc = "refund" /\ workers'[w] # workers[w]

\* this step sets an authorization to REVERSED
Reverses ==
    \E id \in 1..Len(transactions) :
        transactions[id].status # "REVERSED" /\ transactions'[id].status = "REVERSED"

\* the aggregates of a card and every verdict of the evaluator on it are the
\* same after this step
HeadroomUnchanged(c) ==
    /\ DailySum(c)' = DailySum(c)
    /\ MonthlySum(c)' = MonthlySum(c)
    /\ \A amountMinor \in Amounts, mcc \in MccCodes :
          evaluate(cards[c], c, amountMinor, mcc)'
             = evaluate(cards[c], c, amountMinor, mcc)

\* transaction id is in the daily aggregate of card c
CountsToday(c, id) ==
    /\ transactions[id].cardId = c
    /\ transactions[id].status \in {"AUTHORIZED", "SETTLED"}
    /\ transactions[id].createdAt = now

\* transaction id is in the monthly aggregate of card c
CountsThisMonth(c, id) ==
    /\ transactions[id].cardId = c
    /\ transactions[id].status \in {"AUTHORIZED", "SETTLED"}
    /\ MonthOf(transactions[id].createdAt) = MonthOf(now)

\* C10: a refund does not restore limit headroom: a processRefund call that is
\* not the processor's full-amount reversal leaves the card's daily and monthly
\* aggregates as they were, so an authorization that would be declined with
\* daily_limit or monthly_limit before it is still declined after it.  The
\* processor's full-amount reversal sets the original to REVERSED, which takes
\* its amount out of the aggregates.
C10_RefundKeepsHeadroom ==
    [][\A w \in Workers, c \in CardIds :
          Refunds(w) =>
             IF Reverses
             THEN /\ workers[w].req.processorInitiated
                  /\ DailySum(c)' = DailySum(c) -
                        IF CountsToday(c, workers[w].req.originalTransactionId)
                        THEN transactions[workers[w].req.originalTransactionId].amountMinor
                        ELSE 0
                  /\ MonthlySum(c)' = MonthlySum(c) -
                        IF CountsThisMonth(c, workers[w].req.originalTransactionId)
                        THEN transactions[workers[w].req.originalTransactionId].amountMinor
                        ELSE 0
             ELSE HeadroomUnchanged(c)]_vars

\* an authorization was refunded in full by the user on the day it was made
\* and still fills the day's limit: a further authorization is declined
C10_Witness ==
    \E id \in 1..Len(transactions), c \in CardIds :
        /\ transactions[id].type = "REFUND"
        /\ \E o \in transactions[id].originalTransactionId :
              /\ transactions[o].status = "AUTHORIZED"
              /\ transactions[o].createdAt = now
              /\ transactions[o].cardId = c
              /\ transactions[o].amountMinor = transactions[id].amountMinor
              /\ DailySum(c) = transactions[o].amountMinor
        /\ evaluate(cards[c], c, 1, "5411").reason = "daily_limit"

\* C10 as stated: the aggregates used for a card are not reduced by any
\* processRefund call.
C10_NoRefundRestoresHeadroom ==
    [][\A w \in Workers, c \in CardIds : Refunds(w) => HeadroomUnchanged(c)]_vars

\* the REFUND rows linked to a transaction
LinkedRefunds(id) ==
    { r \in 1..Len(transactions) :
         /\ transactions[r].type = "REFUND"
         /\ id \in transactions[r].originalTransactionId }

\* the amount a refund request asks for: the given one, or all of the original
RequestedRefund(req) ==
    IF req.refundAmountMinor = {}
    THEN transactions[req.originalTransactionId].amountMinor
    ELSE CHOOSE a \in req.refundAmountMinor : TRUE

\* this step answers handler w's refund without writing a row
RefundRejectedBy(w) ==
    /\ transactions' = transactions
    /\ ledgerEntries' = ledgerEntries
    /\ ledgerAccounts' = ledgerAccounts
    /\ workers'[w].pc = "done"
    /\ ~workers'[w].resp.approved
    /\ workers'[w].resp.status \in {404, 422}

C12_RefundNeedsRefundableOriginal ==
    /\ [](\A r \in 1..Len(transactions) :
            transactions[r].type = "REFUND" =>
               \E o \in transactions[r].originalTransactionId :
                  /\ o \in 1..(r - 1)
                  /\ transactions[o].type = "AUTHORIZATION"
                  /\ transactions[o].status \in {"AUTHORIZED", "SETTLED", "REVERSED"})
    /\ [][\A w \in Workers :
            ( /\ Refunds(w)
              /\ \/ workers[w].req.originalTransactionId \notin 1..Len(transactions)
                 \/ transactions[workers[w].req.originalTransactionId].status
                       \notin {"AUTHORIZED", "SETTLED"} )
            => RefundRejectedBy(w)]_vars

\* the refund of a DECLINED authorization was rejected: no REFUND row and no
\* ledger entry exist
C12_Witness ==
    \E w \in Workers :
        /\ workers[w].pc = "done"
        /\ workers[w].outcome = "executed"
        /\ workers[w].req.kind = "refund"
        /\ workers[w].req.originalTransactionId \in 1..Len(transactions)
        /\ transactions[workers[w].req.originalTransactionId].status = "DECLINED"
        /\ workers[w].resp.status = 422
        /\ \A id \in 1..Len(transactions) : transactions[id].type # "REFUND"
        /\ ledgerEntries = << >>

\* the committed reversal of transaction id: a linked REFUND row, REFUNDED, of
\* the full amount, with its reverse ledger pair
ReversalRefunds(id) ==
    { r \in LinkedRefunds(id) :
         /\ transactions[r].status = "REFUNDED"
         /\ transactions[r].amountMinor = transactions[id].amountMinor
         /\ Cardinality(EntriesOf(r)) = 2
         /\ \E e \in EntriesOfType(r, "CREDIT") :
               ledgerAccounts[ledgerEntries[e].ledgerAccountId].accountType
                  = "CARD_HOLDER"
         /\ \E e \in EntriesOfType(r, "DEBIT") :
               ledgerAccounts[ledgerEntries[e].ledgerAccountId].accountType
                  = "MERCHANT" }

Settles(w) == workers[w].pc = "settle" /\ workers'[w] # workers[w]

\* C14: a processSettlement whose settlementAmountMinor differs from the
\* authorized amountMinor, or whose settlementCurrency differs from the
\* transaction currency, is rejected with unsupported_event and the original
\* Transaction remains AUTHORIZED.
C14_SettlementMismatchRejected ==
    [][\A w \in Workers, id \in 1..Len(transactions) :
          ( /\ Settles(w)
            /\ workers[w].req.authorizationCode = id
            /\ transactions[id].status = "AUTHORIZED"
            /\ \/ workers[w].req.settlementAmountMinor # transactions[id].amountMinor
               \/ workers[w].req.settlementCurrency # transactions[id].currency )
          => /\ workers'[w].pc = "done"
             /\ workers'[w].resp.error = "unsupported_event"
             /\ ~workers'[w].resp.approved
             /\ transactions'[id].status = "AUTHORIZED"
             /\ transactions' = transactions
             /\ ledgerEntries' = ledgerEntries]_vars

\* an authorization of 2 was to be settled for 1: the settlement was rejected
\* with unsupported_event and the authorization is still AUTHORIZED
C14_Witness ==
    \E w \in Workers, id \in 1..Len(transactions) :
        /\ workers[w].pc = "done"
        /\ workers[w].outcome = "executed"
        /\ workers[w].req.kind = "settle"
        /\ workers[w].req.authorizationCode = id
        /\ workers[w].req.settlementAmountMinor = 1
        /\ workers[w].req.settlementCurrency = "USD"
        /\ workers[w].resp.error = "unsupported_event"
        /\ transactions[id].amountMinor = 2
        /\ transactions[id].status = "AUTHORIZED"

\* C15: processSettlement succeeds only for a Transaction whose current status
\* is AUTHORIZED; on success it changes that row's status to SETTLED in place
\* and the number of Transaction rows is unchanged; a settlement addressed to a
\* Transaction that is SETTLED, DECLINED or REVERSED changes nothing.
C15_SettlesAuthorizedInPlace ==
    [][\A w \in Workers :
          Settles(w) =>
             /\ Len(transactions') = Len(transactions)
             /\ ledgerEntries' = ledgerEntries
             /\ ledgerAccounts' = ledgerAccounts
             /\ ( workers'[w].resp.approved \/ transactions' # transactions )
                => \E id \in 1..Len(transactions) :
                      /\ workers[w].req.authorizationCode = id
                      /\ transactions[id].status = "AUTHORIZED"
                      /\ workers'[w].resp.approved
                      /\ transactions' =
                            [transactions EXCEPT ![id].status = "SETTLED"]
             /\ \A id \in 1..Len(transactions) :
                   ( /\ workers[w].req.authorizationCode = id
                     /\ transactions[id].status \in {"SETTLED", "DECLINED", "REVERSED"} )
                   => /\ transactions' = transactions
                      /\ ~workers'[w].resp.approved]_vars

\* an authorization was settled and a second settlement of it, sent under a new
\* key, was turned away: one row, SETTLED, with its two ledger entries
C15_Witness ==
    \E w \in Workers, id \in 1..Len(transactions) :
        /\ workers[w].pc = "done"
        /\ workers[w].outcome = "executed"
        /\ workers[w].req.kind = "settle"
        /\ workers[w].req.authorizationCode = id
        /\ workers[w].req.settlementAmountMinor = transactions[id].amountMinor
        /\ workers[w].req.settlementCurrency = transactions[id].currency
        /\ ~workers[w].resp.approved
        /\ transactions[id].status = "SETTLED"
        /\ Len(transactions) = 1
        /\ Len(ledgerEntries) = 2

\* -------------------------------------------------------------- ledger properties
\* this step gives transaction id the status: by an update, or by creating the
\* row with it
TakesStatus(id, status) ==
    /\ id \in 1..Len(transactions')
    /\ transactions'[id].status = status
    /\ id \in 1..Len(transactions) => transactions[id].status # status

\* the ledger entries this step adds
AddedEntries == (Len(ledgerEntries) + 1)..Len(ledgerEntries')

\* this step adds ledger entries only as the pair of the Transaction it creates,
\* an approved AUTHORIZATION or a REFUND
EntriesOnlyWithNewTransaction ==
    ledgerEntries' # ledgerEntries =>
       /\ Len(transactions') = Len(transactions) + 1
       /\ \/ Last(transactions').type = "REFUND"
          \/ /\ Last(transactions').type = "AUTHORIZATION"
             /\ Last(transactions').status = "AUTHORIZED"
       /\ Len(ledgerEntries') = Len(ledgerEntries) + 2
       /\ \A e \in AddedEntries :
             ledgerEntries'[e].transactionId = Len(transactions')

C17_LedgerAppendOnly ==
    [][/\ Len(ledgerEntries') >= Len(ledgerEntries)
       /\ \A e \in 1..Len(ledgerEntries) : ledgerEntries'[e] = ledgerEntries[e]
       /\ \A e \in 1..Len(ledgerEntries) : ledgerEntries[e] \in
             {ledgerEntries'[f] : f \in 1..Len(ledgerEntries')}]_vars

\* two pairs were posted one after the other, and the settlement of the first
\* transaction left its pair as it was
C17_Witness ==
    /\ Len(ledgerEntries) = 4
    /\ ledgerEntries[1].transactionId = ledgerEntries[2].transactionId
    /\ ledgerEntries[3].transactionId = ledgerEntries[4].transactionId
    /\ ledgerEntries[1].transactionId # ledgerEntries[3].transactionId
    /\ transactions[ledgerEntries[1].transactionId].status = "SETTLED"

\* ------------------------------------------------------ unit of work properties
\* the tables show whole units of work only: every transaction that posts a
\* ledger pair has its two entries, and every entry has its transaction and
\* its account
NoPartialWrite ==
    /\ \A id \in 1..Len(transactions) :
          PostsLedgerPair(transactions[id]) => Cardinality(EntriesOf(id)) = 2
    /\ \A e \in 1..Len(ledgerEntries) :
          /\ ledgerEntries[e].transactionId \in 1..Len(transactions)
          /\ transactions[ledgerEntries[e].transactionId].id =
                ledgerEntries[e].transactionId
          /\ PostsLedgerPair(transactions[ledgerEntries[e].transactionId])
          /\ ledgerEntries[e].ledgerAccountId \in 1..Len(ledgerAccounts)

\* handler w is answered the transient failure in this step
FailsTransiently(w) ==
    /\ workers[w].pc = "commit"
    /\ workers'[w].pc = "done"
    /\ workers'[w].resp = TransientFailure

\* the unit of work of handler w is rolled back for another attempt
Reattempts(w) == unitOfWork'[w].attempt = unitOfWork[w].attempt + 1

\* C18: a unit of work that hits a serialization conflict is re-attempted at
\* most MaxRetries times; when the conflict persists the operation ends with
\* the transient failure and none of its writes is in the tables; no state
\* shows a partial write.
C18_RetryThenFailWhole ==
    /\ [](/\ \A w \in Workers : unitOfWork[w].attempt \in 0..MaxRetries
          /\ NoPartialWrite)
    /\ [][\A w \in Workers :
             /\ Reattempts(w) =>
                   /\ unitOfWork[w].open
                   /\ unitOfWork[w].attempt < MaxRetries
                   /\ ~unitOfWork'[w].open
                   /\ Tables' = Tables
                   /\ workers' = workers
             /\ FailsTransiently(w) =>
                   /\ unitOfWork[w].open
                   /\ unitOfWork[w].attempt = MaxRetries
                   /\ unitOfWork'[w] = NoUnit
                   /\ Tables' = Tables
                   /\ \A id \in 1..Len(transactions') :
                         transactions'[id].idempotencyKey #
                            workers[w].req.idempotencyKey
             /\ ( unitOfWork[w].open /\ ~unitOfWork'[w].open
                  /\ ~Reattempts(w) /\ ~FailsTransiently(w) ) =>
                   /\ workers'[w].resp.approved
                   /\ Len(transactions') = Len(transactions) + 1
                   /\ Last(transactions').status = "AUTHORIZED"
                   /\ Len(ledgerEntries') = Len(ledgerEntries) + 2]_vars

\* one handler was answered the transient failure after its last retry, with
\* its INSERTs done, while the other authorization committed: the tables hold
\* that one transaction and its pair
C18_Witness ==
    \E w, v \in Workers :
        /\ workers[w].resp = TransientFailure
        /\ workers[v].resp.approved
        /\ Len(transactions) = 1
        /\ Len(ledgerEntries) = 2
        /\ transactions[1].idempotencyKey = workers[v].req.idempotencyKey
        /\ transactions[1].idempotencyKey # workers[w].req.idempotencyKey

\* ------------------------------------------------------------ type and status
\* C19: in every state each Transaction's (type, status) is one of
\* (AUTHORIZATION, AUTHORIZED), (AUTHORIZATION, SETTLED), (AUTHORIZATION,
\* DECLINED), (AUTHORIZATION, REVERSED) and (REFUND, REFUNDED).
C19_LegalTypeStatus ==
    \A id \in 1..Len(transactions) :
        /\ <<transactions[id].type, transactions[id].status>> \in TypeStatusMatrix
        /\ <<transactions[id].type, transactions[id].status>> \in
              { <<"AUTHORIZATION", "AUTHORIZED">>, <<"AUTHORIZATION", "SETTLED">>,
                <<"AUTHORIZATION", "DECLINED">>, <<"AUTHORIZATION", "REVERSED">>,
                <<"REFUND", "REFUNDED">> }

\* a declined authorization, a reversed one and its refund are in the table
C19_Witness ==
    /\ \E id \in 1..Len(transactions) : transactions[id].status = "DECLINED"
    /\ \E id \in 1..Len(transactions) : transactions[id].status = "REVERSED"
    /\ \E id \in 1..Len(transactions) :
          transactions[id].type = "REFUND" /\ transactions[id].status = "REFUNDED"

\* ------------------------------------------------------------------- balances
\* balance of a ledger account: the sum of its DEBIT entries minus the sum of
\* its CREDIT entries
Balance(account) ==
    SumAmounts(ledgerEntries,
               RowIds(ledgerEntries,
                      LAMBDA e : e.ledgerAccountId = account /\ e.entryType = "DEBIT"))
    - SumAmounts(ledgerEntries,
                 RowIds(ledgerEntries,
                        LAMBDA e : e.ledgerAccountId = account /\ e.entryType = "CREDIT"))

RECURSIVE SumBalances(_)
SumBalances(accounts) ==
    IF accounts = {} THEN 0
    ELSE LET a == CHOOSE b \in accounts : TRUE
         IN  Balance(a) + SumBalances(accounts \ {a})

\* approved authorizations: the AUTHORIZATION rows that were given an
\* authorizationCode, whatever their status became
ApprovedAmount(Of(_)) ==
    SumAmounts(transactions,
               RowIds(transactions,
                      LAMBDA t : /\ Of(t)
                                 /\ t.type = "AUTHORIZATION"
                                 /\ t.authorizationCode # {}))

RefundedAmount(Of(_)) ==
    SumAmounts(transactions,
               RowIds(transactions, LAMBDA t : Of(t) /\ t.type = "REFUND"))

\* C20: no money is created or destroyed.  In every state the balance of each
\* card's CARD_HOLDER account is the total of the card's approved
\* authorizations minus the total of its refunds, each merchant's account
\* holds the opposite of what was approved less what was refunded with that
\* merchant, the merchant accounts together hold the opposite of the
\* cardholder accounts, and the balances of all ledger accounts sum to zero.
C20_NoMoneyCreatedOrDestroyed ==
    /\ \A c \in CardIds :
          Balance(AccountId(ledgerAccounts, "CARD_HOLDER", c)) =
             ApprovedAmount(LAMBDA t : t.cardId = c)
             - RefundedAmount(LAMBDA t : t.cardId = c)
    /\ \A m \in LedgerMerchantIds :
          IF AccountsOf(ledgerAccounts, "MERCHANT", m) = {}
          THEN ApprovedAmount(LAMBDA t : t.merchantId = m) = 0
          ELSE Balance(AccountId(ledgerAccounts, "MERCHANT", m)) =
                  RefundedAmount(LAMBDA t : t.merchantId = m)
                  - ApprovedAmount(LAMBDA t : t.merchantId = m)
    /\ SumBalances(RowIds(ledgerAccounts, LAMBDA a : a.accountType = "MERCHANT")) =
          0 - SumBalances(RowIds(ledgerAccounts,
                                 LAMBDA a : a.accountType = "CARD_HOLDER"))
    /\ SumBalances(1..Len(ledgerAccounts)) = 0

\* two merchants were paid 1 each and one payment was refunded: the cardholder
\* account holds 1, one merchant account the opposite, the other nothing
C20_Witness ==
    /\ ApprovedAmount(LAMBDA t : TRUE) = 2
    /\ RefundedAmount(LAMBDA t : TRUE) = 1
    /\ \E c \in CardIds :
          Balance(AccountId(ledgerAccounts, "CARD_HOLDER", c)) = 1
    /\ \E a, b \in RowIds(ledgerAccounts, LAMBDA r : r.accountType = "MERCHANT") :
          /\ a # b
          /\ Balance(a) = 0 - 1
          /\ Balance(b) = 0
          /\ RowIds(ledgerEntries, LAMBDA e : e.ledgerAccountId = b) # {}

\* ------------------------------------------------------------ ledger accounts
\* C21: there is exactly one CARD_HOLDER ledger account per card and at most
\* one MERCHANT ledger account per merchant identifier, also when first-time
\* authorizations for the same merchant are processed concurrently.
C21_OneAccountPerOwner ==
    /\ \A c \in CardIds :
          Cardinality(AccountsOf(ledgerAccounts, "CARD_HOLDER", c)) = 1
    /\ \A m \in MerchantIds :
          Cardinality(AccountsOf(ledgerAccounts, "MERCHANT", m)) <= 1
    /\ \A a \in 1..Len(ledgerAccounts) :
          \/ ledgerAccounts[a].accountType = "SYSTEM"
          \/ /\ ledgerAccounts[a].accountType = "CARD_HOLDER"
             /\ ledgerAccounts[a].ownerEntityId \in CardIds
          \/ /\ ledgerAccounts[a].accountType = "MERCHANT"
             /\ ledgerAccounts[a].ownerEntityId \in MerchantIds
             /\ \E id \in 1..Len(transactions) :
                   /\ transactions[id].merchantId = ledgerAccounts[a].ownerEntityId
                   /\ transactions[id].authorizationCode # {}

\* two first-time authorizations for one merchant ran together: the first has
\* committed the merchant's account, the second holds an uncommitted account
\* for the same merchant, created on a snapshot that had none
C21_Witness ==
    \E w \in Workers, m \in MerchantIds :
        /\ unitOfWork[w].open
        /\ unitOfWork[w].entries # << >>
        /\ AccountsOf(unitOfWork[w].snapshot.ledgerAccounts, "MERCHANT", m) = {}
        /\ AccountsOf(unitOfWork[w].ledgerAccounts, "MERCHANT", m) # {}
        /\ Cardinality(AccountsOf(ledgerAccounts, "MERCHANT", m)) = 1

\* ------------------------------------------------------------- rate limiter
\* requests of an IP passed on to the route handlers in the interval of
\* WINDOW_MS that starts at `from`
PassedIn(ip, from) ==
    { i \in 1..Len(passed[ip]) :
         passed[ip][i] >= from /\ passed[ip][i] < from + WINDOW_MS }

\* C22: within any interval of WINDOW_MS at most MAX_REQUESTS requests of one
\* IP are passed on to the route handlers.
C22_AtMostMaxPerInterval ==
    \A ip \in IPs : \A from \in 0..MaxClock :
        Cardinality(PassedIn(ip, from)) <= MAX_REQUESTS

\* the decision and the headers of two answers are the same
SameOutcome(a, b) ==
    /\ a.status = b.status
    /\ a.remaining = b.remaining
    /\ a.resetTime = b.resetTime

\* the answer the limiter gave last is the one the Map without any cleanup
\* gives
ServedAsWithoutCleanup ==
    limiterResponse.ip \in IPs =>
        LET data == withoutCleanup[limiterResponse.ip]
        IN  /\ limiterResponse.status = Decision(data)
            /\ limiterResponse.remaining = Remaining(data)
            /\ limiterResponse.resetTime = data.resetTime

\* every request from now on is answered the same with and without cleanup
LaterRequestsUnaffected ==
    \A ip \in IPs, time \in clock..MaxClock :
        SameOutcome(LimiterAnswer(requestCounts, ip, time),
                    LimiterAnswer(withoutCleanup, ip, time))

\* a step that removes entries from the Map removes only expired ones
RemovesOnlyExpired ==
    \A ip \in DOMAIN requestCounts \ DOMAIN requestCounts' :
        clock > requestCounts[ip].resetTime

\* C30: cleanupExpiredEntries between requests never changes the outcome of a
\* later request (decision, remaining count and reset time are those of the
\* limiter without cleanup), and it removes only entries whose window has
\* expired.
C30_CleanupNeverChangesOutcome ==
    /\ [](ServedAsWithoutCleanup /\ LaterRequestsUnaffected)
    /\ [][RemovesOnlyExpired]_vars

\* a request answered from a fresh entry after cleanup deleted the entry of an
\* earlier, passed request of the same IP; another IP still has its entry
C30_Witness ==
    /\ limiterResponse.ip \in IPs
    /\ limiterResponse.created
    /\ Len(passed[limiterResponse.ip]) >= 2
    /\ \E other \in IPs \ {limiterResponse.ip} :
          /\ other \in DOMAIN requestCounts
          /\ requestCounts[other].count > MAX_REQUESTS

\* ------------------------------------------------- Transaction status moves
StatusMoves ==
    { <<"AUTHORIZED", "SETTLED">>, <<"AUTHORIZED", "REVERSED">>,
      <<"SETTLED", "REVERSED">> }

\* no row leaves the table and a row keeps its id and type
RowsKept ==
    /\ Len(transactions') >= Len(transactions)
    /\ \A i \in 1..Len(transactions) :
          /\ transactions'[i].id = transactions[i].id
          /\ transactions'[i].type = transactions[i].type

\* a status changes along one of the three moves only
StatusMovesOnly ==
    \A i \in 1..Len(transactions) :
        transactions'[i].status # transactions[i].status =>
            <<transactions[i].status, transactions'[i].status>> \in StatusMoves

\* a refund of less than the original amount leaves the original as it was
PartialRefundKeepsStatus ==
    \A i \in (1..Len(transactions')) \ (1..Len(transactions)) :
        LET refund == transactions'[i]
        IN  refund.type = "REFUND" =>
              \A o \in refund.originalTransactionId :
                  refund.amountMinor < transactions[o].amountMinor =>
                      /\ transactions[o].status \in {"AUTHORIZED", "SETTLED"}
                      /\ transactions'[o].status = transactions[o].status

\* C28: a Transaction row is never deleted and its status only moves
\* AUTHORIZED->SETTLED, AUTHORIZED->REVERSED or SETTLED->REVERSED (DECLINED,
\* REFUNDED and REVERSED are final); a partial refund leaves the status of the
\* original (AUTHORIZED or SETTLED) unchanged.
C28_StatusMovesForwardOnly ==
    [][RowsKept /\ StatusMovesOnly /\ PartialRefundKeepsStatus]_vars

\* a settled authorization with a partial refund
C28_Witness ==
    \E o \in 1..Len(transactions), r \in 1..Len(transactions) :
        /\ transactions[o].type = "AUTHORIZATION"
        /\ transactions[o].status = "SETTLED"
        /\ transactions[r].type = "REFUND"
        /\ transactions[r].originalTransactionId = {o}
        /\ transactions[r].amountMinor < transactions[o].amountMinor

\* ------------------------------------------- approval against a frozen card
\* the rows a step adds to the Transaction table
NewRows == (1..Len(transactions')) \ (1..Len(transactions))

\* C27: no authorization is approved for a card that is not ACTIVE when the
\* approval commits: no step adds an AUTHORIZED Transaction (with its ledger
\* entries) for a card whose transition to FROZEN or CLOSED has taken place.
C27_ApprovedOnlyWhileActive ==
    [][\A i \in NewRows :
          (/\ transactions'[i].type = "AUTHORIZATION"
           /\ transactions'[i].status = "AUTHORIZED")
          => cards[transactions'[i].cardId].status = "ACTIVE"]_vars

\* ------------------------------------------------------------ ticket import
\* C23: the result of parseJSON and of parseXML carries a validTickets list
\* with exactly the records that passed validation, in input order (its length
\* equals successful); for malformed input it is the empty list.
C23_ValidTicketsCarried ==
    importFile.extension \in {"json", "xml"} =>
        /\ Has(importResult, "validTickets")
        /\ importResult.validTickets = extractValidTickets(importFile)
        /\ Len(importResult.validTickets) = importResult.successful

\* C24: when the database saves fewer tickets than passed validation, the
\* response lowers successful to the number saved, raises failed by the
\* difference, and appends an error whose message states the number of tickets
\* that failed to save, the positive difference.
C24_SaveFailuresReported ==
    importResponse.saved < importResponse.validation.successful =>
        LET body == importResponse.body
            validation == importResponse.validation
            difference == validation.successful - importResponse.saved
        IN  /\ body.successful = importResponse.saved
            /\ body.failed = validation.failed + difference
            /\ body.successful + body.failed
                  = validation.successful + validation.failed
            /\ Len(body.errors) = Len(validation.errors) + 1
            /\ Last(body.errors).error.text = "tickets failed to save to database"
            /\ Last(body.errors).error.number = {difference}

\* the summary counts add up and every error names a record of the file that
\* failed validation, by its 1-based position
SummaryOfRecords(file, result) ==
    /\ result.total = result.successful + result.failed
    /\ result.failed = Len(result.errors)
    /\ \A j \in 1..Len(result.errors) :
          /\ result.errors[j].row \in 1..Len(file.records)
          /\ ~CreateTicketSchema(file.records[result.errors[j].row])
    /\ \A i \in 1..Len(file.records) :
          ~CreateTicketSchema(file.records[i]) =>
              \E j \in 1..Len(result.errors) : result.errors[j].row = i

\* the summary of a buffer the parser of the format rejected
SummaryOfUnparsed(result) ==
    /\ result.total = 0
    /\ result.successful = 0
    /\ result.failed = 1
    /\ Len(result.errors) = 1
    /\ result.errors[1].row = 0

\* the summary of a CSV stream that failed after `total` rows: one error more
\* than rows that failed validation, carrying the number of rows read
SummaryOfFailedStream(file, result) ==
    /\ result.total = result.successful + result.failed - 1
    /\ result.failed = Len(result.errors)
    /\ Last(result.errors).row = result.total
    /\ SummaryOfRecords(file,
          [result EXCEPT !.failed = @ - 1,
                         !.errors = SubSeq(@, 1, Len(@) - 1)])

\* C29 as stated: every import summary returned by parseCSV, parseJSON and
\* parseXML has total = successful + failed, failed = the number of errors,
\* and each error's row is the 1-based position of a record that failed
\* validation.
C29_Original == SummaryOfRecords(importFile, importResult)

\* C29: the summary of a buffer that parses has total = successful + failed,
\* failed = the number of errors, and each error's row is the 1-based position
\* of a record that failed validation; the summary of a buffer that does not
\* parse (malformed JSON or XML, an empty XML document) is total 0, successful
\* 0, failed 1 with one error of row 0; a CSV stream error adds one error and
\* one to failed, with the number of rows read as its row.
C29_SummaryCountsAddUp ==
    CASE importFile.kind \in {"none", "records"} ->
            SummaryOfRecords(importFile, importResult)
      [] importFile.kind \in {"malformed", "empty"} ->
            SummaryOfUnparsed(importResult)
      [] importFile.kind = "streamError" ->
            SummaryOfFailedStream(importFile, importResult)

\* a file with a valid and an invalid record has been summarised, the invalid
\* one second
C29_Witness ==
    /\ importFile.kind = "records"
    /\ importResult.total = 2
    /\ importResult.successful = 1
    /\ importResult.errors = << ImportError(2, {}, "ZodError") >>

\* ------------------------------------------------------------ ticket update
\* the columns a request supplies
Supplied(request) == { UpdateColumns[f] : f \in DOMAIN request }

\* the columns named hold the value of the request
TakesSupplied(response) ==
    \A f \in DOMAIN response.request :
        response.body[UpdateColumns[f]] = ColumnValue(f, response.request[f])

\* every column but those named and those excepted is as before
KeepsOthers(response, excepted) ==
    \A col \in DOMAIN response.before \ (Supplied(response.request) \cup excepted) :
        response.body[col] = response.before[col]

\* C26 as stated: updateTicket changes exactly the fields supplied in the
\* request and leaves every other field of the ticket unchanged.
C26_Original ==
    ticketResponse.status = 200 /\ ticketResponse.before # << >> =>
        /\ TakesSupplied(ticketResponse)
        /\ KeepsOthers(ticketResponse, {})

\* C26: updateTicket sets the fields supplied in the request, sets updated_at
\* to the time of the update, and leaves every other field of the ticket
\* unchanged; so after updates that each set a different field the ticket
\* holds all the updated values and its original values elsewhere, but for
\* updated_at.
C26_UpdateSetsSuppliedFields ==
    /\ ticketResponse.status = 200 /\ ticketResponse.before # << >> =>
          /\ TakesSupplied(ticketResponse)
          /\ KeepsOthers(ticketResponse, {"updatedAt"})
          /\ ticketResponse.body.updatedAt
                \in ticketResponse.before.updatedAt..ticketClock
          /\ ticketTable[ticketResponse.id] = ticketResponse.body
    /\ \A i \in DOMAIN ticketTable :
          /\ ticketTable[i].id = i
          /\ ticketTable[i].createdAt <= ticketTable[i].updatedAt

\* the ticket of the test after status, priority and assigned_to were set by
\* three requests at a later time
C26_Witness ==
    /\ ticketRequests = 4
    /\ ticketResponse.status = 200
    /\ DOMAIN ticketResponse.request = {"assigned_to"}
    /\ ticketResponse.before.updatedAt < ticketResponse.body.updatedAt
    /\ LET ticket == ticketTable[1]
       IN  /\ ticket.status = "IN_PROGRESS"
           /\ ticket.priority = "HIGH"
           /\ ticket.assignedTo = {"agent@test.com"}
           /\ ticket.customerId = "CUST001"
           /\ ticket.category = "OTHER"
           /\ ticket.tags = << >>
           /\ ticket.resolvedAt = {}
           /\ ticket.createdAt = 0

\* ----------------------------------------------------------------- shutdown
\* C25: on SIGINT or SIGTERM the process never exits before the HTTP server
\* has finished closing (no request is left in flight) and the database has
\* been disconnected; it exits with code 0 after both steps and with code 1
\* only if one of them failed.
C25_ExitsAfterCloseAndDisconnect ==
    /\ exitCode # {} => server = "closed" /\ inFlight = 0
    /\ exitCode = {0} => database = "disconnected"
    /\ exitCode = {1} => database = "failed"

====
